---- MODULE Spec2Model ----
(***************************************************************************)
(* A model of the tracing sample (samples/python/02-traces.py): the        *)
(* Problem record, the simulated dependency operations (cache_lookup,      *)
(* unavailable_cache, database_query, cache_update) and product_lookup,    *)
(* which orchestrates them inside a server span; and of the scripts        *)
(* 08-openai.py, 09-maas.py and create_hotel_search_index.py.              *)
(***************************************************************************)
EXTENDS Integers, Sequences, FiniteSets, TLC

VARIABLES
    pc,                  \* position of the script
    nreq,                \* number of scenario runs started so far
    tokens,              \* context tokens attached and not yet detached
    binding,             \* the function globals()['cache_lookup'] names
    heap,                \* the Problem objects constructed so far, by reference
    spans,               \* the spans of the current trace, in start order
    current,             \* index in spans of the current span (0: none)
    product_id,          \* product_lookup's argument
    cache_result,        \* product_lookup's local
    db_result,           \* product_lookup's local
    cache_update_result, \* product_lookup's local
    result,              \* what product_lookup returned to the scenario runner
    raised,              \* the exception in flight ("none": no exception)
    calls,               \* the dependency calls of the current request, in order
    ctor,                \* arguments of the last direct Problem(...) construction
    wire,                \* the last to_dict() result
    tracer,              \* "set" once setup_tracing has returned the tracer
    script,              \* the sample script that is running
    env,                 \* the environment variables the script reads
    clients,             \* the SDK clients the script has constructed
    requests,            \* the requests sent to cloud services, in order
    inflight,            \* requests sent whose response has not arrived
    loop_i,              \* the loop counter of the script
    hotels,              \* create_hotel_search_index: the generated hotels
    existing_hotel_ids,  \* create_hotel_search_index: ids found in the index
    new_hotels,          \* create_hotel_search_index: the hotels to upload
    uploaded_count,      \* create_hotel_search_index: documents uploaded
    failed_count,        \* create_hotel_search_index: documents not uploaded
    printed,             \* the diagnostics the script has printed
    chat_history,        \* 07-sk-rag-sample: the messages of the chat history
    user_input,          \* 07-sk-rag-sample: the line input() returned
    response,            \* 07-sk-rag-sample: the content of the chat service's reply
    formatted_results    \* 07-sk-rag-sample: what format_hotels_for_completion returned

\* the state of the other sample scripts
sampleVars == <<script, env, clients, requests, inflight, loop_i, hotels,
                existing_hotel_ids, new_hotels, uploaded_count, failed_count,
                printed>>

\* the state of the RAG demo
ragVars == <<chat_history, user_input, response, formatted_results>>

vars == <<pc, nreq, tokens, binding, heap, spans, current, product_id,
          cache_result, db_result, cache_update_result, result, raised,
          calls, ctor, wire, tracer, sampleVars, ragVars>>

----------------------------------------------------------------------------
(* Bounds of the model.                                                    *)

\* scenario runs (product_lookup requests) per behaviour
MaxRequests == 2

----------------------------------------------------------------------------
(* Python values.  Every value is a record of the same shape, so that any  *)
(* two values can be compared: tag says which Python type it is.  A str    *)
(* is a literal (s) or an f-string (parts: the rendered pieces, in order). *)

PyNone == [tag |-> "none", s |-> "", n |-> 0, parts |-> <<>>]
Lit(str) == [tag |-> "str", s |-> str, n |-> 0, parts |-> <<>>]
FStr(pieces) == [tag |-> "str", s |-> "", n |-> 0, parts |-> pieces]
PyInt(i) == [tag |-> "int", s |-> "", n |-> i, parts |-> <<>>]
PyTrue == [tag |-> "bool", s |-> "", n |-> 1, parts |-> <<>>]
PyFalse == [tag |-> "bool", s |-> "", n |-> 0, parts |-> <<>>]
\* a reference to the Problem object heap[ref]
ProblemRef(ref) == [tag |-> "problem", s |-> "", n |-> ref, parts |-> <<>>]
\* what a call yields when it raises instead of returning
Raise(name) == [tag |-> "raise", s |-> name, n |-> 0, parts |-> <<>>]

\* isinstance(v, Problem)
IsProblem(v) == v.tag = "problem"

IsRaise(v) == v.tag = "raise"

\* bool(v): None, "", 0 and False are falsy; a Problem defines neither
\* __bool__ nor __len__, so it is truthy
Truthy(v) ==
    CASE v.tag = "none" -> FALSE
      [] v.tag = "str" -> v.s # "" \/ v.parts # <<>>
      [] v.tag = "int" -> v.n # 0
      [] v.tag = "bool" -> v.n # 0
      [] OTHER -> TRUE

\* d[k] of a dict: KeyError when k is not a key
GetItem(d, k) == IF k \in DOMAIN d THEN d[k] ELSE Raise("KeyError")

\* dict.update / d[k] = v: the entries of e replace those of d
Update(d, e) ==
    [k \in DOMAIN d \cup DOMAIN e |-> IF k \in DOMAIN e THEN e[k] ELSE d[k]]

SetItem(d, k, v) == Update(d, [x \in {k} |-> v])

EmptyDict == [k \in {} |-> PyNone]

----------------------------------------------------------------------------
(* class Problem                                                           *)

\* the keyword parameters of Problem.__init__ that are named in its
\* signature; any other keyword lands in **extras
NamedKeywords == {"status", "detail", "instance"}

\* a constructor that puts the status keyword into extras and leaves the
\* status field None
ProblemInit_StatusInExtras(type, title, kwargs) ==
    [type |-> type,
     title |-> title,
     status |-> PyNone,
     detail |-> IF "detail" \in DOMAIN kwargs THEN kwargs["detail"] ELSE PyNone,
     instance |-> IF "instance" \in DOMAIN kwargs THEN kwargs["instance"] ELSE PyNone,
     extras |-> [k \in DOMAIN kwargs \ {"detail", "instance"} |-> kwargs[k]]]

\* Problem.__init__(type, title, **kwargs)
ProblemInit(type, title, kwargs) ==
    [type |-> type,
     title |-> title,
     status |-> IF "status" \in DOMAIN kwargs THEN kwargs["status"] ELSE PyNone,
     detail |-> IF "detail" \in DOMAIN kwargs THEN kwargs["detail"] ELSE PyNone,
     instance |-> IF "instance" \in DOMAIN kwargs THEN kwargs["instance"] ELSE PyNone,
     extras |-> [k \in DOMAIN kwargs \ NamedKeywords |-> kwargs[k]]]

\* Problem.__str__
ProblemStr(p) ==
    FStr(<<p.title, Lit(": "), IF Truthy(p.detail) THEN p.detail ELSE Lit("")>>)

\* to_dict with "if self.status:" in place of "is not None": a falsy field
\* (status 0, an empty detail) is left out as if it were absent
to_dict_truthiness(p) ==
    LET r0 == [k \in {"type", "title"} |-> IF k = "type" THEN p.type ELSE p.title]
        r1 == IF Truthy(p.status) THEN SetItem(r0, "status", p.status) ELSE r0
        r2 == IF Truthy(p.detail) THEN SetItem(r1, "detail", p.detail) ELSE r1
        r3 == IF Truthy(p.instance) THEN SetItem(r2, "instance", p.instance) ELSE r2
    IN  Update(r3, p.extras)

\* Problem.to_dict
to_dict(p) ==
    LET r0 == [k \in {"type", "title"} |-> IF k = "type" THEN p.type ELSE p.title]
        r1 == IF p.status # PyNone THEN SetItem(r0, "status", p.status) ELSE r0
        r2 == IF p.detail # PyNone THEN SetItem(r1, "detail", p.detail) ELSE r1
        r3 == IF p.instance # PyNone THEN SetItem(r2, "instance", p.instance) ELSE r2
    IN  Update(r3, p.extras)

----------------------------------------------------------------------------
(* Spans.  tracer.start_as_current_span(...) starts a span whose parent is *)
(* the span that is current at that moment; leaving the with block ends it *)

StartSpan(name, kind, attributes, parent) ==
    [name |-> name, kind |-> kind, parent |-> parent, status |-> "UNSET",
     attrs |-> attributes, ended |-> FALSE]

\* span.set_attribute(k, v)
SetAttribute(span, k, v) == [span EXCEPT !.attrs = SetItem(@, k, v)]

\* span.set_status(Status(code))
SetStatus(span, code) == [span EXCEPT !.status = code]

\* leaving the with block
EndSpan(span) == [span EXCEPT !.ended = TRUE]

----------------------------------------------------------------------------
(* The simulated dependencies.  Each operation takes the heap h, the index *)
(* of the span that is current when it is called, and its arguments; it    *)
(* yields the returned value, its own (ended) span and the heap after it.  *)

\* random.random(), in thousandths: the samples a draw is taken from
RandomSamples == {9, 10, 49, 50}

\* random.random() < 0.01
DbFailureThreshold == 10

\* random.random() < 0.05
CacheUpdateFailureThreshold == 50

\* cache_data of cache_lookup
cache_data ==
    (Lit("product-1001") :> Lit("Laptop")) @@ (Lit("product-2002") :> Lit("Smartphone"))

\* db_data of database_query
db_data ==
    (Lit("product-1001") :> Lit("Laptop")) @@ (Lit("product-2002") :> Lit("Smartphone"))
    @@ (Lit("product-3003") :> Lit("Tablet"))
    @@ (Lit("product-4004") :> Lit("Desktop Computer"))

\* the attributes of a "Redis GET" span (cache_lookup and unavailable_cache)
RedisGetAttributes(key) ==
    ("db.system" :> Lit("redis")) @@ ("db.operation" :> Lit("GET"))
    @@ ("db.statement" :> FStr(<<Lit("GET "), key>>))
    @@ ("net.peer.name" :> Lit("redis.example.com"))
    @@ ("net.peer.port" :> PyInt(6379))
    @@ ("cache.key" :> key)
    @@ ("peer.service" :> Lit("redis-cache"))
    @@ ("component" :> Lit("redis"))
    @@ ("messaging.system" :> Lit("redis"))
    @@ ("rpc.system" :> Lit("redis"))

\* cache_lookup without the "if key in cache_data" guard: a miss raises
cache_lookup_unguarded(h, parent, key) ==
    LET span == StartSpan(Lit("Redis GET"), "CLIENT", RedisGetAttributes(key), parent)
    IN  [ret |-> GetItem(cache_data, key),
         span |-> EndSpan(SetAttribute(span, "cache.hit", PyTrue)),
         heap |-> h]

\* cache_lookup(tracer, key)
cache_lookup(h, parent, key) ==
    LET span == StartSpan(Lit("Redis GET"), "CLIENT", RedisGetAttributes(key), parent)
    IN  IF key \in DOMAIN cache_data
        THEN [ret |-> GetItem(cache_data, key),
              span |-> EndSpan(SetAttribute(span, "cache.hit", PyTrue)),
              heap |-> h]
        ELSE [ret |-> PyNone,
              span |-> EndSpan(SetAttribute(span, "cache.hit", PyFalse)),
              heap |-> h]

\* run_scenario_3.unavailable_cache(tracer, key)
unavailable_cache(h, parent, key) ==
    LET span == StartSpan(Lit("Redis GET"), "CLIENT", RedisGetAttributes(key), parent)
        problem == ProblemInit(
            Lit("https://example.com/problems/cache-unavailable"),
            Lit("Cache Service Unavailable"),
            ("status" :> PyInt(503))
            @@ ("detail" :> Lit("The cache service is currently unavailable"))
            @@ ("instance" :> FStr(<<Lit("/cache/"), key>>))
            @@ ("retry_after" :> PyInt(120)))
        s1 == SetStatus(span, "ERROR")
        s2 == SetAttribute(s1, "error", PyTrue)
        s3 == SetAttribute(s2, "error.type", Lit("CacheUnavailable"))
        s4 == SetAttribute(s3, "error.message", ProblemStr(problem))
        s5 == SetAttribute(s4, "problem.type", problem.type)
        s6 == SetAttribute(s5, "problem.title", problem.title)
        s7 == SetAttribute(s6, "problem.status", problem.status)
    IN  [ret |-> ProblemRef(Len(h) + 1),
         span |-> EndSpan(s7),
         heap |-> Append(h, problem)]

\* the attributes of the "PostgreSQL Query" span
PostgresAttributes(key) ==
    ("db.system" :> Lit("postgresql")) @@ ("db.name" :> Lit("products"))
    @@ ("db.operation" :> Lit("SELECT"))
    @@ ("db.statement" :>
          FStr(<<Lit("SELECT * FROM products WHERE id = '"), key, Lit("'")>>))
    @@ ("net.peer.name" :> Lit("database.example.com"))
    @@ ("net.peer.port" :> PyInt(5432))
    @@ ("db.key" :> key)
    @@ ("peer.service" :> Lit("postgres-db"))
    @@ ("component" :> Lit("postgresql"))
    @@ ("messaging.system" :> Lit("postgresql"))
    @@ ("rpc.system" :> Lit("postgresql"))

\* database_query that raises on the simulated failure instead of returning
\* a Problem
database_query_raises(h, parent, key, rnd) ==
    LET span == StartSpan(Lit("PostgreSQL Query"), "CLIENT", PostgresAttributes(key), parent)
    IN  IF rnd < DbFailureThreshold
        THEN [ret |-> Raise("DatabaseError"),
              span |-> EndSpan(SetStatus(span, "ERROR")),
              heap |-> h]
        ELSE IF key \in DOMAIN db_data
        THEN [ret |-> GetItem(db_data, key),
              span |-> EndSpan(SetAttribute(span, "db.found", PyTrue)),
              heap |-> h]
        ELSE [ret |-> ProblemRef(Len(h) + 1),
              span |-> EndSpan(SetAttribute(span, "db.found", PyFalse)),
              heap |-> Append(h, ProblemInit(
                  Lit("https://example.com/problems/product-not-found"),
                  Lit("Product Not Found"),
                  ("status" :> PyInt(404))
                  @@ ("detail" :>
                        FStr(<<Lit("Product with ID "), key,
                               Lit(" was not found in the database")>>))
                  @@ ("instance" :> FStr(<<Lit("/products/"), key>>))))]

\* database_query whose product-not-found Problem is built without a status
database_query_no_status(h, parent, key, rnd) ==
    LET span == StartSpan(Lit("PostgreSQL Query"), "CLIENT", PostgresAttributes(key), parent)
    IN  IF rnd < DbFailureThreshold
        THEN LET problem == ProblemInit(
                     Lit("https://example.com/problems/database-error"),
                     Lit("Database Error"),
                     ("status" :> PyInt(500))
                     @@ ("detail" :>
                           Lit("The database is experiencing technical difficulties"))
                     @@ ("instance" :> FStr(<<Lit("/database/query/"), key>>)))
                 s1 == SetStatus(span, "ERROR")
                 s2 == SetAttribute(s1, "error", PyTrue)
             IN  [ret |-> ProblemRef(Len(h) + 1),
                  span |-> EndSpan(s2),
                  heap |-> Append(h, problem)]
        ELSE IF key \in DOMAIN db_data
        THEN [ret |-> GetItem(db_data, key),
              span |-> EndSpan(SetAttribute(span, "db.found", PyTrue)),
              heap |-> h]
        ELSE [ret |-> ProblemRef(Len(h) + 1),
              span |-> EndSpan(SetAttribute(span, "db.found", PyFalse)),
              heap |-> Append(h, ProblemInit(
                  Lit("https://example.com/problems/product-not-found"),
                  Lit("Product Not Found"),
                  ("detail" :>
                        FStr(<<Lit("Product with ID "), key,
                               Lit(" was not found in the database")>>))
                  @@ ("instance" :> FStr(<<Lit("/products/"), key>>))))]

\* database_query(tracer, key); rnd is the draw of random.random()
database_query(h, parent, key, rnd) ==
    LET span == StartSpan(Lit("PostgreSQL Query"), "CLIENT", PostgresAttributes(key), parent)
    IN  IF rnd < DbFailureThreshold
        THEN LET problem == ProblemInit(
                     Lit("https://example.com/problems/database-error"),
                     Lit("Database Error"),
                     ("status" :> PyInt(500))
                     @@ ("detail" :>
                           Lit("The database is experiencing technical difficulties"))
                     @@ ("instance" :> FStr(<<Lit("/database/query/"), key>>)))
                 s1 == SetStatus(span, "ERROR")
                 s2 == SetAttribute(s1, "error", PyTrue)
                 s3 == SetAttribute(s2, "error.type", Lit("DatabaseError"))
                 s4 == SetAttribute(s3, "error.message", ProblemStr(problem))
                 s5 == SetAttribute(s4, "problem.type", problem.type)
                 s6 == SetAttribute(s5, "problem.title", problem.title)
             IN  [ret |-> ProblemRef(Len(h) + 1),
                  span |-> EndSpan(s6),
                  heap |-> Append(h, problem)]
        ELSE IF key \in DOMAIN db_data
        THEN [ret |-> GetItem(db_data, key),
              span |-> EndSpan(SetAttribute(span, "db.found", PyTrue)),
              heap |-> h]
        ELSE [ret |-> ProblemRef(Len(h) + 1),
              span |-> EndSpan(SetAttribute(span, "db.found", PyFalse)),
              heap |-> Append(h, ProblemInit(
                  Lit("https://example.com/problems/product-not-found"),
                  Lit("Product Not Found"),
                  ("status" :> PyInt(404))
                  @@ ("detail" :>
                        FStr(<<Lit("Product with ID "), key,
                               Lit(" was not found in the database")>>))
                  @@ ("instance" :> FStr(<<Lit("/products/"), key>>))))]

\* the attributes of the "Redis SET" span
RedisSetAttributes(key, value) ==
    ("db.system" :> Lit("redis")) @@ ("db.operation" :> Lit("SET"))
    @@ ("db.statement" :> FStr(<<Lit("SET "), key, Lit(" "), value>>))
    @@ ("net.peer.name" :> Lit("redis.example.com"))
    @@ ("net.peer.port" :> PyInt(6379))
    @@ ("cache.key" :> key)
    @@ ("cache.value" :> value)
    @@ ("peer.service" :> Lit("redis-cache"))
    @@ ("component" :> Lit("redis"))
    @@ ("messaging.system" :> Lit("redis"))
    @@ ("rpc.system" :> Lit("redis"))

\* cache_update that returns False on the simulated failure
cache_update_returns_false(h, parent, key, value, rnd) ==
    LET span == StartSpan(Lit("Redis SET"), "CLIENT", RedisSetAttributes(key, value), parent)
    IN  IF rnd < CacheUpdateFailureThreshold
        THEN [ret |-> PyFalse,
              span |-> EndSpan(SetAttribute(SetStatus(span, "ERROR"), "error", PyTrue)),
              heap |-> h]
        ELSE [ret |-> PyTrue, span |-> EndSpan(span), heap |-> h]

\* cache_update that returns its Problem without recording it in the span
cache_update_unrecorded(h, parent, key, value, rnd) ==
    LET span == StartSpan(Lit("Redis SET"), "CLIENT", RedisSetAttributes(key, value), parent)
    IN  IF rnd < CacheUpdateFailureThreshold
        THEN [ret |-> ProblemRef(Len(h) + 1),
              span |-> EndSpan(span),
              heap |-> Append(h, ProblemInit(
                  Lit("https://example.com/problems/cache-update-failed"),
                  Lit("Cache Update Failed"),
                  ("status" :> PyInt(500))
                  @@ ("detail" :> Lit("Unable to update cache with new value"))
                  @@ ("instance" :> FStr(<<Lit("/cache/"), key>>))))]
        ELSE [ret |-> PyTrue, span |-> EndSpan(span), heap |-> h]

\* cache_update(tracer, key, value); rnd is the draw of random.random()
cache_update(h, parent, key, value, rnd) ==
    LET span == StartSpan(Lit("Redis SET"), "CLIENT", RedisSetAttributes(key, value), parent)
    IN  IF rnd < CacheUpdateFailureThreshold
        THEN LET problem == ProblemInit(
                     Lit("https://example.com/problems/cache-update-failed"),
                     Lit("Cache Update Failed"),
                     ("status" :> PyInt(500))
                     @@ ("detail" :> Lit("Unable to update cache with new value"))
                     @@ ("instance" :> FStr(<<Lit("/cache/"), key>>)))
                 s1 == SetStatus(span, "ERROR")
                 s2 == SetAttribute(s1, "error", PyTrue)
                 s3 == SetAttribute(s2, "error.type", Lit("CacheUpdateFailed"))
                 s4 == SetAttribute(s3, "error.message", ProblemStr(problem))
             IN  [ret |-> ProblemRef(Len(h) + 1),
                  span |-> EndSpan(s4),
                  heap |-> Append(h, problem)]
        ELSE [ret |-> PyTrue, span |-> EndSpan(span), heap |-> h]

----------------------------------------------------------------------------
(* product_lookup.  Its body is cut at the three dependency calls; what it *)
(* does with each returned value is an operator on the server span, which  *)
(* yields the span after it, where control goes next (next), the value     *)
(* returned when it returns (ret) and the heap after it.                   *)

\* random.randint(1000000, 9999999): the samples a draw is taken from
RandomIds == {1000000, 9999999}

\* the attributes of the server span
ServerAttributes(id, scenario, rnd) ==
    ("http.method" :> Lit("GET"))
    @@ ("http.url" :> FStr(<<Lit("https://example.com/api/products/"), id>>))
    @@ ("http.scheme" :> Lit("https"))
    @@ ("http.host" :> Lit("example.com"))
    @@ ("http.target" :> FStr(<<Lit("/api/products/"), id>>))
    @@ ("http.route" :> Lit("/api/products/{id}"))
    @@ ("http.status_code" :> PyInt(200))
    @@ ("product.id" :> id)
    @@ ("scenario" :> scenario)
    @@ ("operation.name" :> FStr(<<Lit("GET /api/products/{"), id, Lit("}")>>))
    @@ ("operation.id" :> FStr(<<Lit("scenario-"), scenario, Lit("-"), PyInt(rnd)>>))
    @@ ("component" :> Lit("api"))

\* the server span product_lookup opens
ServerSpan(id, scenario, rnd, parent) ==
    StartSpan(FStr(<<Lit("GET Product "), id>>), "SERVER",
              ServerAttributes(id, scenario, rnd), parent)

\* product_lookup that fails the request on a cache Problem
OnCacheResult_FailFast(h, span, cr) ==
    IF IsProblem(cr)
    THEN [span |-> SetAttribute(SetAttribute(span, "problem.detected", Lit("cache")),
                                "problem.title", h[cr.n].title),
          next |-> "return", ret |-> cr, heap |-> h]
    ELSE IF Truthy(cr)
    THEN [span |-> SetAttribute(SetAttribute(span, "lookup.source", Lit("cache")),
                                "http.status_code", PyInt(200)),
          next |-> "return", ret |-> cr, heap |-> h]
    ELSE [span |-> span, next |-> "database_query", ret |-> PyNone, heap |-> h]

\* product_lookup that marks the cache Problem as handled
OnCacheResult_Annotates(h, span, cr) ==
    IF IsProblem(cr)
    THEN [span |-> SetAttribute(SetAttribute(span, "problem.detected", Lit("cache")),
                                "problem.title", h[cr.n].title),
          next |-> "database_query", ret |-> PyNone,
          heap |-> [h EXCEPT ![cr.n].extras = SetItem(@, "handled", PyTrue)]]
    ELSE IF Truthy(cr)
    THEN [span |-> SetAttribute(SetAttribute(span, "lookup.source", Lit("cache")),
                                "http.status_code", PyInt(200)),
          next |-> "return", ret |-> cr, heap |-> h]
    ELSE [span |-> span, next |-> "database_query", ret |-> PyNone, heap |-> h]

\* product_lookup that tests "if cache_result:" without the isinstance check
OnCacheResult_NoTypeCheck(h, span, cr) ==
    IF Truthy(cr)
    THEN [span |-> SetAttribute(SetAttribute(span, "lookup.source", Lit("cache")),
                                "http.status_code", PyInt(200)),
          next |-> "return", ret |-> cr, heap |-> h]
    ELSE [span |-> span, next |-> "database_query", ret |-> PyNone, heap |-> h]

\* product_lookup that notes a cache hit but goes on to the database
OnCacheResult_NoEarlyReturn(h, span, cr) ==
    IF IsProblem(cr)
    THEN [span |-> SetAttribute(SetAttribute(span, "problem.detected", Lit("cache")),
                                "problem.title", h[cr.n].title),
          next |-> "database_query", ret |-> PyNone, heap |-> h]
    ELSE IF Truthy(cr)
    THEN [span |-> SetAttribute(SetAttribute(span, "lookup.source", Lit("cache")),
                                "http.status_code", PyInt(200)),
          next |-> "database_query", ret |-> PyNone, heap |-> h]
    ELSE [span |-> span, next |-> "database_query", ret |-> PyNone, heap |-> h]

\* product_lookup after cache_lookup returned cr
OnCacheResult(h, span, cr) ==
    IF IsProblem(cr)
    THEN [span |-> SetAttribute(SetAttribute(span, "problem.detected", Lit("cache")),
                                "problem.title", h[cr.n].title),
          next |-> "database_query", ret |-> PyNone, heap |-> h]
    ELSE IF Truthy(cr)
    THEN [span |-> SetAttribute(SetAttribute(span, "lookup.source", Lit("cache")),
                                "http.status_code", PyInt(200)),
          next |-> "return", ret |-> cr, heap |-> h]
    ELSE [span |-> span, next |-> "database_query", ret |-> PyNone, heap |-> h]

\* product_lookup that turns a product-not-found Problem into None
OnDbResult_NotFoundAsNone(h, span, cr, dr) ==
    IF IsProblem(dr)
    THEN LET s1 == SetAttribute(span, "problem.detected", Lit("database"))
             s2 == SetAttribute(s1, "problem.title", h[dr.n].title)
             s3 == SetAttribute(s2, "http.status_code", h[dr.n].status)
         IN  IF h[dr.n].status.n >= 500
             THEN [span |-> SetStatus(s3, "ERROR"), next |-> "return", ret |-> dr,
                   heap |-> h]
             ELSE [span |-> s3, next |-> "return", ret |-> PyNone, heap |-> h]
    ELSE LET s1 == SetAttribute(span, "lookup.source", Lit("database"))
         IN  IF ~IsProblem(cr)
             THEN [span |-> s1, next |-> "cache_update", ret |-> PyNone, heap |-> h]
             ELSE [span |-> s1, next |-> "return", ret |-> dr, heap |-> h]

\* product_lookup that queries the database once more after a 5xx Problem
OnDbResult_Retry(h, span, cr, dr) ==
    IF IsProblem(dr)
    THEN LET s1 == SetAttribute(span, "problem.detected", Lit("database"))
             s2 == SetAttribute(s1, "problem.title", h[dr.n].title)
             s3 == SetAttribute(s2, "http.status_code", h[dr.n].status)
         IN  IF h[dr.n].status.n >= 500
             THEN IF Cardinality({i \in DOMAIN calls : calls[i].op = "database_query"}) < 2
                  THEN [span |-> s3, next |-> "database_query", ret |-> PyNone,
                        heap |-> h]
                  ELSE [span |-> SetStatus(s3, "ERROR"), next |-> "return", ret |-> dr,
                        heap |-> h]
             ELSE [span |-> s3, next |-> "return", ret |-> dr, heap |-> h]
    ELSE LET s1 == SetAttribute(span, "lookup.source", Lit("database"))
         IN  IF ~IsProblem(cr)
             THEN [span |-> s1, next |-> "cache_update", ret |-> PyNone, heap |-> h]
             ELSE [span |-> s1, next |-> "return", ret |-> dr, heap |-> h]

\* product_lookup that updates the cache without looking at cache_result
OnDbResult_AlwaysUpdates(h, span, cr, dr) ==
    IF IsProblem(dr)
    THEN LET s1 == SetAttribute(span, "problem.detected", Lit("database"))
             s2 == SetAttribute(s1, "problem.title", h[dr.n].title)
             s3 == SetAttribute(s2, "http.status_code", h[dr.n].status)
         IN  IF h[dr.n].status.n >= 500
             THEN [span |-> SetStatus(s3, "ERROR"), next |-> "return", ret |-> dr,
                   heap |-> h]
             ELSE [span |-> s3, next |-> "return", ret |-> dr, heap |-> h]
    ELSE [span |-> SetAttribute(span, "lookup.source", Lit("database")),
          next |-> "cache_update", ret |-> PyNone, heap |-> h]

\* product_lookup that returns the database value without updating the cache
OnDbResult_SkipsUpdate(h, span, cr, dr) ==
    IF IsProblem(dr)
    THEN LET s1 == SetAttribute(span, "problem.detected", Lit("database"))
             s2 == SetAttribute(s1, "problem.title", h[dr.n].title)
             s3 == SetAttribute(s2, "http.status_code", h[dr.n].status)
         IN  IF h[dr.n].status.n >= 500
             THEN [span |-> SetStatus(s3, "ERROR"), next |-> "return", ret |-> dr,
                   heap |-> h]
             ELSE [span |-> s3, next |-> "return", ret |-> dr, heap |-> h]
    ELSE [span |-> SetAttribute(span, "lookup.source", Lit("database")),
          next |-> "return", ret |-> dr, heap |-> h]

\* product_lookup that sets the server span to ERROR for every Problem
OnDbResult_AnyProblemIsError(h, span, cr, dr) ==
    IF IsProblem(dr)
    THEN LET s1 == SetAttribute(span, "problem.detected", Lit("database"))
             s2 == SetAttribute(s1, "problem.title", h[dr.n].title)
             s3 == SetAttribute(s2, "http.status_code", h[dr.n].status)
         IN  [span |-> SetStatus(s3, "ERROR"), next |-> "return", ret |-> dr,
              heap |-> h]
    ELSE LET s1 == SetAttribute(span, "lookup.source", Lit("database"))
         IN  IF ~IsProblem(cr)
             THEN [span |-> s1, next |-> "cache_update", ret |-> PyNone, heap |-> h]
             ELSE [span |-> s1, next |-> "return", ret |-> dr, heap |-> h]

\* product_lookup after database_query returned dr (cr: the cache result)
OnDbResult(h, span, cr, dr) ==
    IF IsProblem(dr)
    THEN LET s1 == SetAttribute(span, "problem.detected", Lit("database"))
             s2 == SetAttribute(s1, "problem.title", h[dr.n].title)
             s3 == SetAttribute(s2, "http.status_code", h[dr.n].status)
         IN  IF h[dr.n].status.tag \notin {"int", "bool"}
             THEN \* None >= 500
                  [span |-> s3, next |-> "raise", ret |-> Raise("TypeError"), heap |-> h]
             ELSE IF h[dr.n].status.n >= 500
             THEN [span |-> SetStatus(s3, "ERROR"), next |-> "return", ret |-> dr,
                   heap |-> h]
             ELSE [span |-> s3, next |-> "return", ret |-> dr, heap |-> h]
    ELSE LET s1 == SetAttribute(span, "lookup.source", Lit("database"))
         IN  IF ~IsProblem(cr)
             THEN [span |-> s1, next |-> "cache_update", ret |-> PyNone, heap |-> h]
             ELSE [span |-> s1, next |-> "return", ret |-> dr, heap |-> h]

\* product_lookup that returns the Problem of a failed cache update
OnCacheUpdateResult_Propagates(h, span, dr, ur) ==
    IF IsProblem(ur)
    THEN [span |-> SetAttribute(span, "cache.update.failed", PyTrue),
          next |-> "return", ret |-> ur, heap |-> h]
    ELSE [span |-> SetAttribute(span, "cache.update.success", PyTrue),
          next |-> "return", ret |-> dr, heap |-> h]

\* product_lookup after cache_update returned ur (dr: the database result)
OnCacheUpdateResult(h, span, dr, ur) ==
    IF IsProblem(ur)
    THEN [span |-> SetAttribute(span, "cache.update.failed", PyTrue),
          next |-> "return", ret |-> dr, heap |-> h]
    ELSE [span |-> SetAttribute(span, "cache.update.success", PyTrue),
          next |-> "return", ret |-> dr, heap |-> h]

----------------------------------------------------------------------------
(* The script.  A scenario runner attaches a fresh trace context, may      *)
(* replace globals()['cache_lookup'] by unavailable_cache (scenario 3),    *)
(* calls product_lookup and detaches the context.  The runners of main     *)
(* are the runs with product-3003, product-1001 and, patched, product-4004 *)

\* the product ids a scenario runner passes: in the cache and the database
\* (1001), in the database only (3003, 4004), in neither (9999)
ProductIds ==
    {Lit("product-1001"), Lit("product-3003"), Lit("product-4004"),
     Lit("product-9999")}

\* the scenario argument of the i-th runner: "scenario_<i>"
ScenarioLabel(i) == FStr(<<Lit("scenario_"), PyInt(i)>>)

NoCtor == [type |-> PyNone, title |-> PyNone, kwargs |-> EmptyDict]

\* the state of the other sample scripts while none of them runs
NoSample ==
    /\ script = "02-traces"
    /\ env = EmptyDict
    /\ clients = {}
    /\ requests = <<>>
    /\ inflight = 0
    /\ loop_i = 0
    /\ hotels = <<>>
    /\ existing_hotel_ids = {}
    /\ new_hotels = <<>>
    /\ uploaded_count = 0
    /\ failed_count = 0
    /\ printed = <<>>
    /\ chat_history = <<>>
    /\ user_input = <<>>
    /\ response = <<>>
    /\ formatted_results = <<>>

Init ==
    /\ pc = "idle"
    /\ nreq = 0
    /\ tokens = 0
    /\ binding = "cache_lookup"
    /\ heap = <<>>
    /\ spans = <<>>
    /\ current = 0
    /\ product_id = PyNone
    /\ cache_result = PyNone
    /\ db_result = PyNone
    /\ cache_update_result = PyNone
    /\ result = PyNone
    /\ raised = "none"
    /\ calls = <<>>
    /\ ctor = NoCtor
    /\ wire = EmptyDict
    /\ tracer = "set"
    /\ NoSample

\* product_lookup goes on at position next with the spans sp
Goto(sp, next) ==
    /\ spans' = sp
    /\ pc' = next
    /\ UNCHANGED <<current, result, raised>>

\* a return that leaves the server span open and current
Return_LeavesSpanOpen(sp, value) ==
    /\ spans' = sp
    /\ result' = value
    /\ pc' = "returned"
    /\ UNCHANGED <<current, raised>>

\* product_lookup returns value: the server span's with block is left
Return(sp, value) ==
    /\ spans' = [sp EXCEPT ![current] = EndSpan(@)]
    /\ current' = sp[current].parent
    /\ result' = value
    /\ pc' = "returned"
    /\ UNCHANGED raised

\* an exception leaves product_lookup: the server span's with block records
\* it (status ERROR) and ends the span
Unwind(sp, exc) ==
    /\ spans' = [sp EXCEPT ![current] = EndSpan(SetStatus(@, "ERROR"))]
    /\ current' = sp[current].parent
    /\ raised' = exc
    /\ pc' = "unwind"
    /\ UNCHANGED result

\* what product_lookup does after one of its checks yielded o
Continue(sp, o) ==
    IF o.next = "return" THEN Return(sp, o.ret)
    ELSE IF o.next = "raise" THEN Unwind(sp, o.ret.s)
    ELSE Goto(sp, o.next)

\* the fields of no Problem
NoProblem == ProblemInit(PyNone, PyNone, EmptyDict)

\* one dependency call of the current request: the function called, its
\* key and value arguments, the draw of random.random() it made (-1: none),
\* the value it returned, the index of its span, and the fields of the
\* Problem it constructed, as they were when it returned
CallRecord(op, arg, rnd, out) ==
    [op |-> op, key |-> product_id, arg |-> arg, rnd |-> rnd, ret |-> out.ret,
     span |-> Len(spans) + 1,
     made |-> IF IsProblem(out.ret) THEN out.heap[out.ret.n] ELSE NoProblem]

\* run_scenario_N up to its call of product_lookup
StartScenario(id, patched) ==
    /\ pc = "idle"
    /\ nreq' = nreq + 1
    /\ tokens' = tokens + 1
    /\ binding' = IF patched THEN "unavailable_cache" ELSE binding
    /\ product_id' = id
    /\ spans' = <<>>
    /\ calls' = <<>>
    /\ pc' = "product_lookup"
    /\ current' = 0
    /\ UNCHANGED <<heap, cache_result, db_result, cache_update_result,
                   result, raised, ctor, wire>>
    /\ UNCHANGED <<tracer, sampleVars, ragVars>>

\* a scenario runner with any product id, patched or not
run_scenario(id, patched) ==
    /\ nreq < MaxRequests
    /\ StartScenario(id, patched)

\* product_lookup up to its call of cache_lookup: the server span is opened
product_lookup_enter(rnd) ==
    /\ pc = "product_lookup"
    /\ spans' = Append(spans, ServerSpan(product_id, ScenarioLabel(nreq), rnd, current))
    /\ current' = Len(spans) + 1
    /\ pc' = "cache_lookup"
    /\ UNCHANGED <<nreq, tokens, binding, heap, product_id, cache_result, db_result,
                   cache_update_result, result, raised, calls, ctor, wire>>
    /\ UNCHANGED <<tracer, sampleVars, ragVars>>

\* cache_result = cache_lookup(tracer, product_id), by the current binding
call_cache_lookup ==
    /\ pc = "cache_lookup"
    /\ LET out == IF binding = "unavailable_cache"
                  THEN unavailable_cache(heap, current, product_id)
                  ELSE cache_lookup(heap, current, product_id)
       IN  /\ heap' = out.heap
           /\ calls' = Append(calls, CallRecord(binding, PyNone, -1, out))
           /\ cache_result' = out.ret
           /\ IF IsRaise(out.ret)
              THEN Unwind(Append(spans, out.span), out.ret.s)
              ELSE Goto(Append(spans, out.span), "check_cache")
    /\ UNCHANGED <<nreq, tokens, binding, product_id, db_result,
                   cache_update_result, ctor, wire>>
    /\ UNCHANGED <<tracer, sampleVars, ragVars>>

\* product_lookup from the check of cache_result to the database call
check_cache_result ==
    /\ pc = "check_cache"
    /\ LET o == OnCacheResult(heap, spans[current], cache_result)
       IN  /\ heap' = o.heap
           /\ Continue([spans EXCEPT ![current] = o.span], o)
    /\ UNCHANGED <<nreq, tokens, binding, product_id, cache_result, db_result,
                   cache_update_result, calls, ctor, wire>>
    /\ UNCHANGED <<tracer, sampleVars, ragVars>>

\* db_result = database_query(tracer, product_id)
call_database_query(rnd) ==
    /\ pc = "database_query"
    /\ LET out == database_query(heap, current, product_id, rnd)
       IN  /\ heap' = out.heap
           /\ calls' = Append(calls, CallRecord("database_query", PyNone, rnd, out))
           /\ db_result' = out.ret
           /\ IF IsRaise(out.ret)
              THEN Unwind(Append(spans, out.span), out.ret.s)
              ELSE Goto(Append(spans, out.span), "check_db")
    /\ UNCHANGED <<nreq, tokens, binding, product_id, cache_result,
                   cache_update_result, ctor, wire>>
    /\ UNCHANGED <<tracer, sampleVars, ragVars>>

\* product_lookup from the check of db_result to the cache update
check_db_result ==
    /\ pc = "check_db"
    /\ LET o == OnDbResult(heap, spans[current], cache_result, db_result)
       IN  /\ heap' = o.heap
           /\ Continue([spans EXCEPT ![current] = o.span], o)
    /\ UNCHANGED <<nreq, tokens, binding, product_id, cache_result, db_result,
                   cache_update_result, calls, ctor, wire>>
    /\ UNCHANGED <<tracer, sampleVars, ragVars>>

\* cache_update_result = cache_update(tracer, product_id, db_result)
call_cache_update(rnd) ==
    /\ pc = "cache_update"
    /\ LET out == cache_update(heap, current, product_id, db_result, rnd)
       IN  /\ heap' = out.heap
           /\ calls' = Append(calls, CallRecord("cache_update", db_result, rnd, out))
           /\ cache_update_result' = out.ret
           /\ IF IsRaise(out.ret)
              THEN Unwind(Append(spans, out.span), out.ret.s)
              ELSE Goto(Append(spans, out.span), "check_update")
    /\ UNCHANGED <<nreq, tokens, binding, product_id, cache_result, db_result,
                   ctor, wire>>
    /\ UNCHANGED <<tracer, sampleVars, ragVars>>

\* product_lookup from the check of cache_update_result to its return
check_cache_update_result ==
    /\ pc = "check_update"
    /\ LET o == OnCacheUpdateResult(heap, spans[current], db_result,
                                    cache_update_result)
       IN  /\ heap' = o.heap
           /\ Continue([spans EXCEPT ![current] = o.span], o)
    /\ UNCHANGED <<nreq, tokens, binding, product_id, cache_result, db_result,
                   cache_update_result, calls, ctor, wire>>
    /\ UNCHANGED <<tracer, sampleVars, ragVars>>

\* a runner that detaches the context after the call, outside any finally
finish_scenario_detach_after_call ==
    /\ pc \in {"returned", "unwind"}
    /\ binding' = IF raised = "none" THEN "cache_lookup" ELSE binding
    /\ tokens' = IF raised = "none" THEN tokens - 1 ELSE tokens
    /\ pc' = IF raised = "none" THEN "idle" ELSE "crashed"
    /\ product_id' = PyNone
    /\ cache_result' = PyNone
    /\ db_result' = PyNone
    /\ cache_update_result' = PyNone
    /\ result' = PyNone
    /\ UNCHANGED <<nreq, heap, spans, current, raised, calls, ctor, wire>>
    /\ UNCHANGED <<tracer, sampleVars, ragVars>>

\* run_scenario_N after product_lookup: the original cache_lookup is bound
\* again unless an exception is in flight, and the context is detached in
\* the finally block; an exception then ends the script
finish_scenario ==
    /\ pc \in {"returned", "unwind"}
    /\ binding' = IF raised = "none" THEN "cache_lookup" ELSE binding
    /\ tokens' = tokens - 1
    /\ pc' = IF raised = "none" THEN "idle" ELSE "crashed"
    /\ product_id' = PyNone
    /\ cache_result' = PyNone
    /\ db_result' = PyNone
    /\ cache_update_result' = PyNone
    /\ result' = PyNone
    /\ UNCHANGED <<nreq, heap, spans, current, raised, calls, ctor, wire>>
    /\ UNCHANGED <<tracer, sampleVars, ragVars>>

\* the keywords and values a direct construction passes: each keyword is
\* left out, None, a falsy value or a value
Keywords == {"status", "detail", "instance", "retry_after"}

KeywordValues(k) ==
    CASE k = "status" -> {PyNone, PyInt(0), PyInt(503)}
      [] k = "detail" -> {PyNone, Lit(""), Lit("The cache service is currently unavailable")}
      [] k = "instance" -> {PyNone, Lit(""), Lit("/cache/product-4004")}
      [] OTHER -> {PyNone, PyInt(0), PyInt(120)}

KeywordArguments ==
    UNION {{kw \in [S -> UNION {KeywordValues(k) : k \in S}] :
               \A k \in S : kw[k] \in KeywordValues(k)} : S \in SUBSET Keywords}

InitProblem ==
    /\ pc = "construct"
    /\ nreq = 0
    /\ tokens = 0
    /\ binding = "cache_lookup"
    /\ heap = <<>>
    /\ spans = <<>>
    /\ current = 0
    /\ product_id = PyNone
    /\ cache_result = PyNone
    /\ db_result = PyNone
    /\ cache_update_result = PyNone
    /\ result = PyNone
    /\ raised = "none"
    /\ calls = <<>>
    /\ ctor = NoCtor
    /\ wire = EmptyDict
    /\ tracer = "set"
    /\ NoSample

\* problem = Problem(type, title, **kwargs)
construct_problem(type, title, kwargs) ==
    /\ pc = "construct"
    /\ ctor' = [type |-> type, title |-> title, kwargs |-> kwargs]
    /\ heap' = Append(heap, ProblemInit(type, title, kwargs))
    /\ pc' = "serialize"
    /\ UNCHANGED <<nreq, tokens, binding, spans, current, product_id, cache_result,
                   db_result, cache_update_result, result, raised, calls, wire>>
    /\ UNCHANGED <<tracer, sampleVars, ragVars>>

\* problem.to_dict()
serialize_problem ==
    /\ pc = "serialize"
    /\ wire' = to_dict(heap[Len(heap)])
    /\ pc' = "serialized"
    /\ UNCHANGED <<nreq, tokens, binding, heap, spans, current, product_id,
                   cache_result, db_result, cache_update_result, result, raised,
                   calls, ctor>>
    /\ UNCHANGED <<tracer, sampleVars, ragVars>>

NextProblem ==
    \/ \E kwargs \in KeywordArguments :
          construct_problem(Lit("https://example.com/problems/cache-unavailable"),
                            Lit("Cache Service Unavailable"), kwargs)
    \/ serialize_problem

SpecProblem == InitProblem /\ [][NextProblem]_vars

Next ==
    \/ \E id \in ProductIds, patched \in BOOLEAN : run_scenario(id, patched)
    \/ \E rnd \in RandomIds : product_lookup_enter(rnd)
    \/ call_cache_lookup
    \/ check_cache_result
    \/ \E rnd \in RandomSamples : call_database_query(rnd)
    \/ check_db_result
    \/ \E rnd \in RandomSamples : call_cache_update(rnd)
    \/ check_cache_update_result
    \/ finish_scenario

Spec == Init /\ [][Next]_vars

----------------------------------------------------------------------------
(* The script of 02-traces.py: main sets up tracing, runs the three        *)
(* scenario runners in order and waits for the telemetry to be exported.   *)

\* the number of scenario runners main calls
Scenarios == 3

\* the positions inside product_lookup's server span
InsideLookup == {"cache_lookup", "check_cache", "database_query", "check_db",
                 "cache_update", "check_update"}

InitMain ==
    /\ pc = "main"
    /\ nreq = 0
    /\ tokens = 0
    /\ binding = "cache_lookup"
    /\ heap = <<>>
    /\ spans = <<>>
    /\ current = 0
    /\ product_id = PyNone
    /\ cache_result = PyNone
    /\ db_result = PyNone
    /\ cache_update_result = PyNone
    /\ result = PyNone
    /\ raised = "none"
    /\ calls = <<>>
    /\ ctor = NoCtor
    /\ wire = EmptyDict
    /\ tracer = "unset"
    /\ NoSample

\* tracer, logger = setup_tracing(is_local=True)
setup_tracing ==
    /\ pc = "main"
    /\ tracer' = "set"
    /\ pc' = "idle"
    /\ UNCHANGED <<nreq, tokens, binding, heap, spans, current, product_id,
                   cache_result, db_result, cache_update_result, result, raised,
                   calls, ctor, wire, sampleVars, ragVars>>

\* run_scenario_1(tracer, logger), up to its call of product_lookup
run_scenario_1 ==
    /\ nreq = 0
    /\ StartScenario(Lit("product-3003"), FALSE)

\* run_scenario_2(tracer, logger), up to its call of product_lookup
run_scenario_2 ==
    /\ nreq = 1
    /\ StartScenario(Lit("product-1001"), FALSE)

\* run_scenario_3(tracer, logger), up to its call of product_lookup
run_scenario_3 ==
    /\ nreq = 2
    /\ StartScenario(Lit("product-4004"), TRUE)

\* an unexpected exception is raised by a statement inside product_lookup's
\* server span
unexpected_exception ==
    /\ pc \in InsideLookup
    /\ Unwind(spans, "RuntimeError")
    /\ UNCHANGED <<nreq, tokens, binding, heap, product_id, cache_result,
                   db_result, cache_update_result, calls, ctor, wire>>
    /\ UNCHANGED <<tracer, sampleVars, ragVars>>

\* main after run_scenario_3: the final log lines and time.sleep(10)
flush_wait ==
    /\ pc = "idle"
    /\ nreq = Scenarios
    /\ pc' = "flush_wait"
    /\ UNCHANGED <<nreq, tokens, binding, heap, spans, current, product_id,
                   cache_result, db_result, cache_update_result, result, raised,
                   calls, ctor, wire, tracer, sampleVars, ragVars>>

\* main returns
main_return ==
    /\ pc = "flush_wait"
    /\ pc' = "exit"
    /\ UNCHANGED <<nreq, tokens, binding, heap, spans, current, product_id,
                   cache_result, db_result, cache_update_result, result, raised,
                   calls, ctor, wire, tracer, sampleVars, ragVars>>

NextMain ==
    \/ setup_tracing
    \/ run_scenario_1
    \/ run_scenario_2
    \/ run_scenario_3
    \/ \E rnd \in RandomIds : product_lookup_enter(rnd)
    \/ call_cache_lookup
    \/ check_cache_result
    \/ \E rnd \in RandomSamples : call_database_query(rnd)
    \/ check_db_result
    \/ \E rnd \in RandomSamples : call_cache_update(rnd)
    \/ check_cache_update_result
    \/ unexpected_exception
    \/ finish_scenario
    \/ flush_wait
    \/ main_return

SpecMain == InitMain /\ [][NextMain]_vars

----------------------------------------------------------------------------
(* The scripts 08-openai.py, 09-maas.py and create_hotel_search_index.py:  *)
(* each reads its configuration from the environment, builds SDK clients   *)
(* and sends requests to cloud services.                                   *)

\* the state of 02-traces.py, which these scripts leave alone
lookupVars == <<nreq, tokens, binding, heap, spans, current, product_id,
                cache_result, db_result, cache_update_result, result, calls,
                ctor, wire, tracer>>

Scripts == {"08-openai", "09-maas", "create_hotel_search_index"}

\* the environment variables a script reads with os.environ.get
EnvNames(s) ==
    IF s \in {"create_hotel_search_index", "07-sk-rag-sample"}
    THEN {"SEARCH_SERVICE_ENDPOINT", "AZURE_OPENAI_ENDPOINT"}
    ELSE {"AZURE_AIGW_ENDPOINT", "AZURE_AIGW_API_KEY"}

\* os.environ.get(name): None when unset, else the string, which may be empty
EnvValues == {PyNone, Lit(""), Lit("configured")}

\* one request to a cloud service: the service, the SDK operation, the
\* number of the iteration or batch it belongs to and the ids of the
\* documents it carries
Request(service, op, n, docs) ==
    [service |-> service, op |-> op, n |-> n, docs |-> docs]

InitScript(s) ==
    /\ pc = "start"
    /\ script = s
    /\ env \in [EnvNames(script) -> EnvValues]
    /\ clients = {}
    /\ requests = <<>>
    /\ inflight = 0
    /\ loop_i = 0
    /\ hotels = <<>>
    /\ existing_hotel_ids = {}
    /\ new_hotels = <<>>
    /\ uploaded_count = 0
    /\ failed_count = 0
    /\ printed = <<>>
    /\ chat_history = <<>>
    /\ user_input = <<>>
    /\ response = <<>>
    /\ formatted_results = <<>>
    /\ nreq = 0
    /\ tokens = 0
    /\ binding = "cache_lookup"
    /\ heap = <<>>
    /\ spans = <<>>
    /\ current = 0
    /\ product_id = PyNone
    /\ cache_result = PyNone
    /\ db_result = PyNone
    /\ cache_update_result = PyNone
    /\ result = PyNone
    /\ raised = "none"
    /\ calls = <<>>
    /\ ctor = NoCtor
    /\ wire = EmptyDict
    /\ tracer = "unset"

InitSamples == \E s \in Scripts : InitScript(s)

\* an exception that nothing catches ends the script
Crash(exc) ==
    /\ raised' = exc
    /\ pc' = "crashed"

\* 08-openai.py: for i in range(20)
Iterations == 20

\* 08-openai.py: client = AsyncAzureOpenAI(...); the constructor may reject
\* its arguments
openai_build_client(ok) ==
    /\ pc = "start"
    /\ script = "08-openai"
    /\ IF ok
       THEN /\ clients' = clients \cup {"AsyncAzureOpenAI"}
            /\ pc' = "openai_for"
            /\ UNCHANGED raised
       ELSE /\ Crash("OpenAIError")
            /\ UNCHANGED clients
    /\ UNCHANGED <<script, env, requests, inflight, loop_i, hotels, existing_hotel_ids,
                   new_hotels, uploaded_count, failed_count, printed, lookupVars, ragVars>>

\* 08-openai.py: the head of the for loop; after the last iteration main
\* returns and asyncio.run ends
openai_for ==
    /\ pc = "openai_for"
    /\ pc' = IF loop_i < Iterations THEN "openai_send" ELSE "exit"
    /\ UNCHANGED <<raised, sampleVars, lookupVars, ragVars>>

\* a loop body that starts the request and goes on without awaiting it
openai_send_without_await ==
    /\ pc = "openai_send"
    /\ requests' = Append(requests, Request("openai", "chat.completions.create", loop_i, <<>>))
    /\ inflight' = inflight + 1
    /\ loop_i' = loop_i + 1
    /\ pc' = "openai_for"
    /\ UNCHANGED <<raised, script, env, clients, hotels, existing_hotel_ids,
                   new_hotels, uploaded_count, failed_count, printed, lookupVars, ragVars>>

\* 08-openai.py: client.chat.completions.create(...) sends its request and
\* main is suspended at the await
openai_send ==
    /\ pc = "openai_send"
    /\ requests' = Append(requests, Request("openai", "chat.completions.create", loop_i, <<>>))
    /\ inflight' = inflight + 1
    /\ pc' = "openai_await"
    /\ UNCHANGED <<raised, script, env, clients, loop_i, hotels, existing_hotel_ids,
                   new_hotels, uploaded_count, failed_count, printed, lookupVars, ragVars>>

\* 08-openai.py: the awaited request completes: main resumes with the
\* response and prints it, or with the exception, which ends the script
openai_response(ok) ==
    /\ pc = "openai_await"
    /\ inflight' = inflight - 1
    /\ IF ok
       THEN /\ loop_i' = loop_i + 1
            /\ pc' = "openai_for"
            /\ UNCHANGED raised
       ELSE /\ Crash("APIError")
            /\ UNCHANGED loop_i
    /\ UNCHANGED <<script, env, clients, requests, hotels, existing_hotel_ids,
                   new_hotels, uploaded_count, failed_count, printed, lookupVars, ragVars>>

\* 09-maas.py: if not api_key: raise Exception(...)
maas_check_key ==
    /\ pc = "start"
    /\ script = "09-maas"
    /\ IF ~Truthy(env["AZURE_AIGW_API_KEY"])
       THEN Crash("Exception")
       ELSE pc' = "maas_client" /\ UNCHANGED raised
    /\ UNCHANGED <<sampleVars, lookupVars, ragVars>>

\* 09-maas.py: client = ChatCompletionsClient(...)
maas_build_client ==
    /\ pc = "maas_client"
    /\ clients' = clients \cup {"ChatCompletionsClient"}
    /\ pc' = "maas_model_info"
    /\ UNCHANGED <<raised, script, env, requests, inflight, loop_i, hotels,
                   existing_hotel_ids, new_hotels, uploaded_count, failed_count,
                   printed, lookupVars, ragVars>>

\* 09-maas.py: model_info = client.get_model_info()
maas_get_model_info(ok) ==
    /\ pc = "maas_model_info"
    /\ requests' = Append(requests, Request("inference", "get_model_info", 0, <<>>))
    /\ IF ok
       THEN pc' = "maas_complete" /\ UNCHANGED raised
       ELSE Crash("HttpResponseError")
    /\ UNCHANGED <<script, env, clients, inflight, loop_i, hotels, existing_hotel_ids,
                   new_hotels, uploaded_count, failed_count, printed, lookupVars, ragVars>>

\* 09-maas.py: response = client.complete(payload)
maas_complete(ok) ==
    /\ pc = "maas_complete"
    /\ requests' = Append(requests, Request("inference", "complete", 0, <<>>))
    /\ IF ok
       THEN pc' = "exit" /\ UNCHANGED raised
       ELSE Crash("HttpResponseError")
    /\ UNCHANGED <<script, env, clients, inflight, loop_i, hotels, existing_hotel_ids,
                   new_hotels, uploaded_count, failed_count, printed, lookupVars, ragVars>>

\* the number of hotels main generates, bounded (the script generates 16)
NumHotels == 2

\* the values str(uuid.uuid4()) takes
HotelIds == {"hotel-a", "hotel-b", "hotel-c"}

\* create_hotel_search_index.py: batch_size
BatchSize == 50

Min(a, b) == IF a < b THEN a ELSE b

\* create_hotel_search_index.py: main's `except Exception as e` prints the
\* error and main returns
PrintError(msg) ==
    /\ printed' = Append(printed, msg)
    /\ pc' = "exit"

\* a configuration check that looks at the search endpoint only
hotel_check_config_only_search ==
    /\ pc = "start"
    /\ script = "create_hotel_search_index"
    /\ IF ~Truthy(env["SEARCH_SERVICE_ENDPOINT"])
       THEN PrintError("Error: SEARCH_SERVICE_ENDPOINT environment variable not set")
       ELSE pc' = "hotel_create_index" /\ UNCHANGED printed
    /\ UNCHANGED <<raised, script, env, clients, requests, inflight, loop_i, hotels,
                   existing_hotel_ids, new_hotels, uploaded_count, failed_count,
                   lookupVars, ragVars>>

\* main: the two `if not ...: raise ValueError(...)` checks
hotel_check_config ==
    /\ pc = "start"
    /\ script = "create_hotel_search_index"
    /\ IF ~Truthy(env["SEARCH_SERVICE_ENDPOINT"])
       THEN PrintError("Error: SEARCH_SERVICE_ENDPOINT environment variable not set")
       ELSE IF ~Truthy(env["AZURE_OPENAI_ENDPOINT"])
       THEN PrintError("Error: AZURE_OPENAI_ENDPOINT environment variable not set")
       ELSE pc' = "hotel_create_index" /\ UNCHANGED printed
    /\ UNCHANGED <<raised, script, env, clients, requests, inflight, loop_i, hotels,
                   existing_hotel_ids, new_hotels, uploaded_count, failed_count,
                   lookupVars, ragVars>>

\* main: the credential, the index client and create_search_index
hotel_create_index(ok) ==
    /\ pc = "hotel_create_index"
    /\ clients' = clients \cup {"DefaultAzureCredential", "SearchIndexClient"}
    /\ requests' = Append(requests, Request("search", "create_or_update_index", 0, <<>>))
    /\ IF ok
       THEN pc' = "hotel_clients" /\ UNCHANGED printed
       ELSE PrintError("Error: create_or_update_index")
    /\ UNCHANGED <<raised, script, env, inflight, loop_i, hotels, existing_hotel_ids,
                   new_hotels, uploaded_count, failed_count, lookupVars, ragVars>>

\* main: the search client and the Azure OpenAI client
hotel_build_clients ==
    /\ pc = "hotel_clients"
    /\ clients' = clients \cup {"SearchClient", "AzureOpenAI"}
    /\ pc' = "hotel_generate"
    /\ UNCHANGED <<raised, script, env, requests, inflight, loop_i, hotels,
                   existing_hotel_ids, new_hotels, uploaded_count, failed_count,
                   printed, lookupVars, ragVars>>

\* main: hotels = [generate_random_hotel() for _ in range(16)]
hotel_generate(ids) ==
    /\ pc = "hotel_generate"
    /\ hotels' = [k \in 1..NumHotels |-> [hotelId |-> ids[k], embedding |-> FALSE]]
    /\ loop_i' = 0
    /\ pc' = "hotel_embed"
    /\ UNCHANGED <<raised, script, env, clients, requests, inflight,
                   existing_hotel_ids, new_hotels, uploaded_count, failed_count,
                   printed, lookupVars, ragVars>>

\* generate_embeddings: one turn of `for hotel in hotels`, or its end
generate_embeddings(ok) ==
    /\ pc = "hotel_embed"
    /\ IF loop_i < Len(hotels)
       THEN /\ requests' = Append(requests,
                   Request("openai", "embeddings.create", loop_i,
                           <<hotels[loop_i + 1].hotelId>>))
            /\ IF ok
               THEN /\ hotels' = [hotels EXCEPT ![loop_i + 1].embedding = TRUE]
                    /\ loop_i' = loop_i + 1
                    /\ UNCHANGED <<pc, printed>>
               ELSE /\ PrintError("Error: embeddings.create")
                    /\ UNCHANGED <<hotels, loop_i>>
       ELSE /\ pc' = "hotel_list"
            /\ UNCHANGED <<requests, hotels, loop_i, printed>>
    /\ UNCHANGED <<raised, script, env, clients, inflight, existing_hotel_ids,
                   new_hotels, uploaded_count, failed_count, lookupVars, ragVars>>

\* a listing whose exception is not caught inside main's inner try: the
\* outer handler reports it and main returns
hotel_list_existing_aborts(found, ok) ==
    /\ pc = "hotel_list"
    /\ requests' = Append(requests, Request("search", "search", 0, <<>>))
    /\ existing_hotel_ids' = found
    /\ IF ok
       THEN pc' = "hotel_filter" /\ UNCHANGED printed
       ELSE PrintError("Error: search")
    /\ UNCHANGED <<raised, script, env, clients, inflight, loop_i, hotels,
                   new_hotels, uploaded_count, failed_count, lookupVars, ragVars>>

\* main: the wildcard search collects the ids in the index; an exception
\* during the listing is caught, reported, and main goes on with the ids
\* collected so far
hotel_list_existing(found, ok) ==
    /\ pc = "hotel_list"
    /\ requests' = Append(requests, Request("search", "search", 0, <<>>))
    /\ existing_hotel_ids' = found
    /\ printed' = IF ok THEN printed
                  ELSE Append(printed, "Warning: Error checking existing hotels")
    /\ pc' = "hotel_filter"
    /\ UNCHANGED <<raised, script, env, clients, inflight, loop_i, hotels,
                   new_hotels, uploaded_count, failed_count, lookupVars, ragVars>>

\* a filter that keeps every generated hotel
hotel_filter_keeps_all ==
    /\ pc = "hotel_filter"
    /\ new_hotels' = hotels
    /\ uploaded_count' = 0
    /\ failed_count' = 0
    /\ loop_i' = 0
    /\ pc' = IF new_hotels' = <<>> THEN "hotel_report" ELSE "hotel_upload"
    /\ UNCHANGED <<raised, script, env, clients, requests, inflight, hotels,
                   existing_hotel_ids, printed, lookupVars, ragVars>>

\* main: new_hotels, and the counters both branches of `if not new_hotels`
\* set to 0
hotel_filter ==
    /\ pc = "hotel_filter"
    /\ new_hotels' = SelectSeq(hotels, LAMBDA h : h.hotelId \notin existing_hotel_ids)
    /\ uploaded_count' = 0
    /\ failed_count' = 0
    /\ loop_i' = 0
    /\ pc' = IF new_hotels' = <<>> THEN "hotel_report" ELSE "hotel_upload"
    /\ UNCHANGED <<raised, script, env, clients, requests, inflight, hotels,
                   existing_hotel_ids, printed, lookupVars, ragVars>>

\* main: one turn of `for i in range(0, len(new_hotels), batch_size)`, or
\* its end; succeeded is the set of positions of the batch whose
\* doc_result.succeeded is true
hotel_upload(ok, succeeded) ==
    /\ pc = "hotel_upload"
    /\ IF loop_i < Len(new_hotels)
       THEN LET batch == SubSeq(new_hotels, loop_i + 1,
                                Min(loop_i + BatchSize, Len(new_hotels)))
                good == Cardinality(succeeded \cap DOMAIN batch)
            IN  /\ requests' = Append(requests,
                       Request("search", "upload_documents", loop_i \div BatchSize + 1,
                               [k \in DOMAIN batch |-> batch[k].hotelId]))
                /\ IF ok
                   THEN /\ uploaded_count' = uploaded_count + good
                        /\ failed_count' = failed_count + (Len(batch) - good)
                        /\ UNCHANGED printed
                   ELSE /\ failed_count' = failed_count + Len(batch)
                        /\ printed' = Append(printed, "Error uploading batch")
                        /\ UNCHANGED uploaded_count
                /\ loop_i' = loop_i + BatchSize
                /\ UNCHANGED pc
       ELSE /\ pc' = "hotel_report"
            /\ UNCHANGED <<requests, uploaded_count, failed_count, printed, loop_i>>
    /\ UNCHANGED <<raised, script, env, clients, inflight, hotels, existing_hotel_ids,
                   new_hotels, lookupVars, ragVars>>

\* main: the results and the sample hotel are printed and main returns
hotel_report ==
    /\ pc = "hotel_report"
    /\ pc' = "exit"
    /\ UNCHANGED <<raised, sampleVars, lookupVars, ragVars>>

NextSamples ==
    \/ \E ok \in BOOLEAN : openai_build_client(ok)
    \/ openai_for
    \/ openai_send
    \/ \E ok \in BOOLEAN : openai_response(ok)
    \/ maas_check_key
    \/ maas_build_client
    \/ \E ok \in BOOLEAN : maas_get_model_info(ok)
    \/ \E ok \in BOOLEAN : maas_complete(ok)
    \/ hotel_check_config
    \/ \E ok \in BOOLEAN : hotel_create_index(ok)
    \/ hotel_build_clients
    \/ \E ids \in [1..NumHotels -> HotelIds] : hotel_generate(ids)
    \/ \E ok \in BOOLEAN : generate_embeddings(ok)
    \/ \E found \in SUBSET HotelIds, ok \in BOOLEAN : hotel_list_existing(found, ok)
    \/ hotel_filter
    \/ \E ok \in BOOLEAN, succeeded \in SUBSET (1..NumHotels) : hotel_upload(ok, succeeded)
    \/ hotel_report

SpecSamples == InitSamples /\ [][NextSamples]_vars

----------------------------------------------------------------------------
(* generate_random_hotel of create_hotel_search_index.py: the amenities    *)
(* and the tags derived from them.                                         *)

HOTEL_AMENITIES ==
    <<"Free Wi-Fi", "Swimming Pool", "Fitness Center", "Spa", "Restaurant",
      "Bar/Lounge", "Room Service", "Business Center", "Airport Shuttle",
      "Concierge Service", "Pet Friendly", "Valet Parking", "EV Charging",
      "Conference Rooms", "Rooftop Pool", "Private Beach", "Tennis Courts",
      "Kids Club", "Golf Course", "Water Park", "Casino", "Yoga Classes">>

\* the arguments of random.randint(5, 15), which draws from a..b, both
\* ends included
MinAmenities == 5
MaxAmenities == 15

RandInt(a, b) == a..b

\* random.sample(population, k): k elements at distinct positions of the
\* population; the draws followed are the runs of k positions that start
\* after position r and wrap around
RandomSample(population, k, r) ==
    [j \in 1..k |-> population[((r + j - 1) % Len(population)) + 1]]

\* the elements of a list
Elements(s) == {s[k] : k \in DOMAIN s}

\* the tags generate_random_hotel derives from the amenities, in order
Tags(amenities) ==
    LET has(a) == a \in Elements(amenities)
        tag(c, name) == IF c THEN <<name>> ELSE <<>>
    IN  tag(has("Pet Friendly"), "pet-friendly")
        \o tag(has("Swimming Pool"), "pool")
        \o tag(has("Fitness Center"), "fitness")
        \o tag(has("Spa"), "spa")
        \o tag(has("Restaurant"), "dining")
        \o tag(has("Business Center") \/ has("Conference Rooms"), "business")
        \o tag(has("Kids Club") \/ has("Water Park"), "family-friendly")
        \o tag(has("Casino"), "entertainment")
        \o tag(has("EV Charging"), "eco-friendly")

\* generate_random_hotel(), with num_amenities, the sample's draw and the
\* uuid as drawn
generate_random_hotel(num_amenities, r, id) ==
    LET amenities == RandomSample(HOTEL_AMENITIES, num_amenities, r)
    IN  [hotelId |-> id, amenities |-> amenities, tags |-> Tags(amenities),
         embedding |-> FALSE]

InitHotel ==
    /\ InitScript("create_hotel_search_index")
    /\ \A n \in DOMAIN env : Truthy(env[n])

\* one call of generate_random_hotel
call_generate_random_hotel(num_amenities, r, id) ==
    /\ pc = "start"
    /\ hotels' = <<generate_random_hotel(num_amenities, r, id)>>
    /\ pc' = "generated"
    /\ UNCHANGED <<raised, script, env, clients, requests, inflight, loop_i,
                   existing_hotel_ids, new_hotels, uploaded_count, failed_count,
                   printed, lookupVars, ragVars>>

NextHotel ==
    \E num_amenities \in RandInt(MinAmenities, MaxAmenities),
       r \in 0..(Len(HOTEL_AMENITIES) - 1), id \in HotelIds :
        call_generate_random_hotel(num_amenities, r, id)

SpecHotel == InitHotel /\ [][NextHotel]_vars

----------------------------------------------------------------------------
(* 07-sk-rag-sample.py: the demo's main loop and process_query. A text is  *)
(* a sequence of pieces; a line typed by the user is a sequence of         *)
(* characters.                                                             *)

\* the characters str.strip() removes
Whitespace == {" ", "\t", "\n"}

LowerCase == <<"a", "b", "c", "d", "e", "f", "g", "h", "i", "j", "k", "l", "m",
               "n", "o", "p", "q", "r", "s", "t", "u", "v", "w", "x", "y", "z">>

UpperCase == <<"A", "B", "C", "D", "E", "F", "G", "H", "I", "J", "K", "L", "M",
               "N", "O", "P", "Q", "R", "S", "T", "U", "V", "W", "X", "Y", "Z">>

\* str.lstrip() and str.rstrip()
RECURSIVE LStrip(_)
LStrip(s) ==
    IF s # <<>> /\ Head(s) \in Whitespace THEN LStrip(Tail(s)) ELSE s

RECURSIVE RStrip(_)
RStrip(s) ==
    IF s # <<>> /\ s[Len(s)] \in Whitespace
    THEN RStrip(SubSeq(s, 1, Len(s) - 1))
    ELSE s

\* str.strip()
Strip(s) == RStrip(LStrip(s))

\* str.upper()
Upper(s) ==
    [k \in DOMAIN s |->
        IF \E j \in DOMAIN LowerCase : LowerCase[j] = s[k]
        THEN UpperCase[CHOOSE j \in DOMAIN LowerCase : LowerCase[j] = s[k]]
        ELSE s[k]]

\* user_input.strip().upper() == "EXIT"
IsExitCommand(s) == Upper(Strip(s)) = <<"E", "X", "I", "T">>

\* the lines input() returns
UserInputs ==
    { <<"E", "X", "I", "T">>,
      <<" ", "e", "x", "i", "t", "\t">>,
      <<"E", "x", "i", "t", " ">>,
      <<"e", "x", " ", "i", "t">>,
      <<"e", "x", "i", "t", "s">>,
      <<>>,
      <<"p", "o", "o", "l", "?">> }

\* the contents the chat service replies with
Replies == { <<"The Grand Hotel has a pool.">>, <<>> }

\* the number of queries the user asks before typing EXIT
MaxQueries == 2

SYSTEM_PROMPT ==
    <<"You are an AI assistant specializing in hotel recommendations.">>

\* a message of the chat history
Message(role, content) == [role |-> role, content |-> content]

InitRag == InitScript("07-sk-rag-sample")

\* main: rag_demo = EnhancedHotelRagDemo(); a ValueError of the set-up is
\* caught by main's `except Exception` and printed
rag_init ==
    /\ pc = "start"
    /\ script = "07-sk-rag-sample"
    /\ IF ~Truthy(env["SEARCH_SERVICE_ENDPOINT"])
       THEN /\ PrintError("Error: SEARCH_SERVICE_ENDPOINT environment variable not set")
            /\ UNCHANGED <<clients, chat_history>>
       ELSE IF ~Truthy(env["AZURE_OPENAI_ENDPOINT"])
       THEN /\ PrintError("Error: AZURE_OPENAI_ENDPOINT environment variable not set")
            /\ clients' = clients \cup {"SearchClient"}
            /\ UNCHANGED chat_history
       ELSE /\ clients' = clients \cup {"SearchClient", "EmbeddingsClient",
                                         "ChatCompletionsClient"}
            /\ chat_history' = <<Message("system", SYSTEM_PROMPT)>>
            /\ pc' = "rag_input"
            /\ UNCHANGED printed
    /\ UNCHANGED <<raised, script, env, requests, inflight, loop_i, hotels,
                   existing_hotel_ids, new_hotels, uploaded_count, failed_count,
                   lookupVars, user_input, response, formatted_results>>

\* a check that compares the line as typed with "EXIT"
rag_input_exact_match(line) ==
    /\ pc = "rag_input"
    /\ loop_i < MaxQueries \/ IsExitCommand(line)
    /\ user_input' = line
    /\ pc' = IF line = <<"E", "X", "I", "T">> THEN "exit" ELSE "rag_add_user_message"
    /\ UNCHANGED <<raised, sampleVars, lookupVars, chat_history, response,
                   formatted_results>>

\* main: user_input = input(...) and the check for the exit command
rag_input(line) ==
    /\ pc = "rag_input"
    /\ loop_i < MaxQueries \/ IsExitCommand(line)
    /\ user_input' = line
    /\ pc' = IF IsExitCommand(line) THEN "exit" ELSE "rag_add_user_message"
    /\ UNCHANGED <<raised, sampleVars, lookupVars, chat_history, response,
                   formatted_results>>

\* process_query: self.chat_history.add_user_message(query)
rag_add_user_message ==
    /\ pc = "rag_add_user_message"
    /\ chat_history' = Append(chat_history, Message("user", user_input))
    /\ pc' = "rag_chat"
    /\ UNCHANGED <<raised, sampleVars, lookupVars, user_input, response,
                   formatted_results>>

\* process_query: result = await self.chat_service.get_chat_message_content(...);
\* an exception leaves process_query and is caught and printed by main
rag_get_chat_message_content(ok, content) ==
    /\ pc = "rag_chat"
    /\ requests' = Append(requests, Request("inference", "get_chat_message_content",
                                            loop_i, <<>>))
    /\ IF ok
       THEN /\ response' = content
            /\ pc' = "rag_add_assistant_message"
            /\ UNCHANGED printed
       ELSE /\ PrintError("Error: get_chat_message_content")
            /\ UNCHANGED response
    /\ UNCHANGED <<raised, script, env, clients, inflight, loop_i, hotels,
                   existing_hotel_ids, new_hotels, uploaded_count, failed_count,
                   lookupVars, chat_history, user_input, formatted_results>>

\* process_query: self.chat_history.add_assistant_message(result.content)
\* and the return; main prints the response and loops
rag_add_assistant_message ==
    /\ pc = "rag_add_assistant_message"
    /\ chat_history' = Append(chat_history, Message("assistant", response))
    /\ loop_i' = loop_i + 1
    /\ pc' = "rag_input"
    /\ UNCHANGED <<raised, script, env, clients, requests, inflight, hotels,
                   existing_hotel_ids, new_hotels, uploaded_count, failed_count,
                   printed, lookupVars, user_input, response, formatted_results>>

NextRag ==
    \/ rag_init
    \/ \E line \in UserInputs : rag_input(line)
    \/ rag_add_user_message
    \/ \E ok \in BOOLEAN, content \in Replies : rag_get_chat_message_content(ok, content)
    \/ rag_add_assistant_message

SpecRag == InitRag /\ [][NextRag]_vars

----------------------------------------------------------------------------
(* 07-sk-rag-sample.py: HotelSearchPlugin.format_hotels_for_completion. A  *)
(* hotel is a dict from field names to values; the returned text is kept   *)
(* as the sequence of its non-blank lines, without their indentation.      *)

PyFloat(text) == [tag |-> "float", s |-> text, n |-> 0, parts |-> <<>>]

PyList(items) == [tag |-> "list", s |-> "", n |-> 0, parts |-> items]

\* str(v), as an f-string renders a value
Str(v) ==
    CASE v.tag = "none" -> "None"
      [] v.tag = "int" -> ToString(v.n)
      [] v.tag = "bool" -> IF v.n # 0 THEN "True" ELSE "False"
      [] OTHER -> v.s

\* sep.join(items) of a list of strings
RECURSIVE Join(_, _)
Join(sep, items) ==
    IF items = <<>> THEN ""
    ELSE IF Len(items) = 1 THEN Head(items).s
    ELSE Head(items).s \o sep \o Join(sep, Tail(items))

\* d.get(k, default)
Get(d, k, default) == IF k \in DOMAIN d THEN d[k] ELSE default

\* the fields the search selects
HotelFields == {"hotelName", "location", "description", "rating", "pricePerNight",
                "amenities", "tags", "roomCount", "lastRenovationDate",
                "parkingIncluded"}

\* the lines of hotel_text for the i-th hotel
HotelText(i, hotel) ==
    LET amenities_str == Join(", ", Get(hotel, "amenities", PyList(<<>>)).parts)
    IN  << "Hotel " \o ToString(i) \o ":",
           "Name: " \o Str(Get(hotel, "hotelName", Lit("N/A"))),
           "Location: " \o Str(Get(hotel, "location", Lit("N/A"))),
           "Description: " \o Str(Get(hotel, "description", Lit("N/A"))),
           "Rating: " \o Str(Get(hotel, "rating", Lit("N/A"))) \o "/5.0",
           "Price per night: $" \o Str(Get(hotel, "pricePerNight", Lit("N/A"))),
           "Amenities: " \o amenities_str,
           "Tags: " \o Join(", ", Get(hotel, "tags", PyList(<<>>)).parts),
           "Room Count: " \o Str(Get(hotel, "roomCount", Lit("N/A"))),
           "Last Renovation: " \o Str(Get(hotel, "lastRenovationDate", Lit("N/A"))),
           "Parking Included: "
               \o (IF Truthy(Get(hotel, "parkingIncluded", PyFalse)) THEN "Yes" ELSE "No") >>

\* the number of lines of one hotel_text
BlockLines == 11

\* the lines of the sequences of a sequence, one after the other
RECURSIVE Lines(_)
Lines(blocks) == IF blocks = <<>> THEN <<>> ELSE Head(blocks) \o Lines(Tail(blocks))

\* a formatter that numbers the hotels from 0
format_hotels_for_completion_from_zero(hs) ==
    IF hs = <<>>
    THEN <<"No hotels found matching the search criteria.">>
    ELSE Lines([k \in DOMAIN hs |-> HotelText(k - 1, hs[k])])

\* format_hotels_for_completion(hotels)
format_hotels_for_completion(hs) ==
    IF hs = <<>>
    THEN <<"No hotels found matching the search criteria.">>
    ELSE Lines([k \in DOMAIN hs |-> HotelText(k, hs[k])])

\* a search result with every field
FullHotel(name, parking) ==
    ("hotelName" :> Lit(name))
    @@ ("location" :> Lit("Paris, France"))
    @@ ("description" :> Lit("Welcome"))
    @@ ("rating" :> PyFloat("4.5"))
    @@ ("pricePerNight" :> PyFloat("250.0"))
    @@ ("amenities" :> PyList(<<Lit("Spa"), Lit("Casino")>>))
    @@ ("tags" :> PyList(<<Lit("spa")>>))
    @@ ("roomCount" :> PyInt(120))
    @@ ("lastRenovationDate" :> Lit("2020-01-01T00:00:00Z"))
    @@ ("parkingIncluded" :> parking)

\* the sets of fields a search result comes with
FieldSets ==
    { HotelFields,
      {},
      HotelFields \ {"amenities", "tags"},
      HotelFields \ {"parkingIncluded"},
      {"hotelName", "amenities", "parkingIncluded"},
      {"amenities", "tags", "parkingIncluded"} }

\* d restricted to the keys in S
Restrict(d, S) == [k \in S \cap DOMAIN d |-> d[k]]

\* the search results
FoundHotels ==
    { Restrict(FullHotel(name, parking), S) :
        name \in {"Grand Hotel", "Royal Inn"}, parking \in {PyTrue, PyFalse},
        S \in FieldSets }

\* the number of results a search returns at most
MaxFound == 2

\* the lists of at most n search results
ListsUpTo(n) == UNION { [1..m -> FoundHotels] : m \in 0..n }

InitFormat ==
    /\ InitScript("07-sk-rag-sample")
    /\ \A n \in DOMAIN env : Truthy(env[n])

\* search_hotels: the results of the search are collected in hotels
search_hotels_collect(found) ==
    /\ pc = "start"
    /\ hotels' = found
    /\ pc' = "format"
    /\ UNCHANGED <<raised, script, env, clients, requests, inflight, loop_i,
                   existing_hotel_ids, new_hotels, uploaded_count, failed_count,
                   printed, lookupVars, chat_history, user_input, response,
                   formatted_results>>

\* search_hotels: formatted_results = self.format_hotels_for_completion(hotels)
search_hotels_format ==
    /\ pc = "format"
    /\ formatted_results' = format_hotels_for_completion(hotels)
    /\ pc' = "formatted"
    /\ UNCHANGED <<raised, sampleVars, lookupVars, chat_history, user_input,
                   response>>

NextFormat ==
    \/ \E found \in ListsUpTo(MaxFound) : search_hotels_collect(found)
    \/ search_hotels_format

SpecFormat == InitFormat /\ [][NextFormat]_vars

----------------------------------------------------------------------------
(* The shapes of a returned value, and the calls a claim is about.         *)

\* a success value: a non-empty product name, or True from cache_update
IsSuccessValue(c) ==
    IF c.op = "cache_update" THEN c.ret = PyTrue
    ELSE c.ret.tag = "str" /\ Truthy(c.ret)

\* the explicit not-found marker: None, or an empty string
IsNotFoundMarker(c) ==
    c.ret.tag = "none" \/ (c.ret.tag = "str" /\ ~Truthy(c.ret))

\* a Problem record: a reference to a Problem object that exists
IsProblemRecord(c) == IsProblem(c.ret) /\ c.ret.n \in DOMAIN heap

\* the call simulated a failure
SimulatedFailure(c) ==
    \/ c.op = "database_query" /\ c.rnd < DbFailureThreshold
    \/ c.op = "cache_update" /\ c.rnd < CacheUpdateFailureThreshold
    \/ c.op = "unavailable_cache"

\* the call is a clean miss: the key is not present, no failure simulated
CleanMiss(c) ==
    \/ c.op = "cache_lookup" /\ c.key \notin DOMAIN cache_data
    \/ c.op = "database_query" /\ c.key \notin DOMAIN db_data /\ ~SimulatedFailure(c)

\* the calls of operation group ops in the current request
CallsOf(ops) == {i \in DOMAIN calls : calls[i].op \in ops}

\* product_lookup has ended, by a return or by an exception
Ended == pc \in {"returned", "unwind"}

\* the server span of the current request
ServerAttrs == spans[1].attrs

----------------------------------------------------------------------------
(* The claims.                                                             *)

\* C1: every dependency call (cache_lookup, unavailable_cache,
\* database_query, cache_update), for every key and every random draw,
\* returns a value of exactly one of the three shapes: a success value, the
\* not-found marker, or a Problem record; never two shapes, never none.
C1_ExactlyOneShape ==
    \A i \in DOMAIN calls :
        LET c == calls[i]
        IN  /\ IsSuccessValue(c) \/ IsNotFoundMarker(c) \/ IsProblemRecord(c)
            /\ ~(IsSuccessValue(c) /\ IsNotFoundMarker(c))
            /\ ~(IsSuccessValue(c) /\ IsProblemRecord(c))
            /\ ~(IsNotFoundMarker(c) /\ IsProblemRecord(c))

\* C1 witness: one request saw all three shapes: a clean cache miss, a
\* database value and a Problem from cache_update.
C1_Witness ==
    /\ Len(calls) = 3
    /\ IsNotFoundMarker(calls[1])
    /\ IsSuccessValue(calls[2])
    /\ IsProblemRecord(calls[3])

\* C2: every dependency call that simulates a failure returns a Problem
\* whose type and title are non-empty strings, and raises no exception.
C2_FailureIsProblem ==
    \A i \in DOMAIN calls :
        SimulatedFailure(calls[i]) =>
            /\ IsProblemRecord(calls[i])
            /\ heap[calls[i].ret.n].type.tag = "str"
            /\ Truthy(heap[calls[i].ret.n].type)
            /\ heap[calls[i].ret.n].title.tag = "str"
            /\ Truthy(heap[calls[i].ret.n].title)
            /\ raised = "none"

\* C2 witness: within one request the replaced cache lookup failed and the
\* database query failed too.
C2_Witness ==
    /\ Len(calls) = 2
    /\ calls[1].op = "unavailable_cache"
    /\ calls[2].op = "database_query"
    /\ SimulatedFailure(calls[2])
    /\ IsProblem(calls[2].ret)

\* C3, as stated: every clean miss (cache_lookup on a key absent from the
\* cache, database_query on a key absent from the database with no failure
\* simulated) returns the not-found marker, neither a success value nor a
\* Problem.
C3_CleanMissIsMarker ==
    \A i \in DOMAIN calls :
        CleanMiss(calls[i]) =>
            /\ IsNotFoundMarker(calls[i])
            /\ ~IsSuccessValue(calls[i])
            /\ ~IsProblem(calls[i].ret)

\* C3, amended: cache_lookup on a key absent from the cache returns None;
\* database_query on a key absent from the database, with no failure
\* simulated, returns a product-not-found Problem of status 404.
C3_MissIsNoneOrNotFoundProblem ==
    \A i \in DOMAIN calls :
        CleanMiss(calls[i]) =>
            IF calls[i].op = "cache_lookup"
            THEN calls[i].ret = PyNone
            ELSE /\ IsProblemRecord(calls[i])
                 /\ calls[i].made.type = Lit("https://example.com/problems/product-not-found")
                 /\ calls[i].made.status = PyInt(404)

\* C3 witness: a key in neither store missed the cache and then the database.
C3_Witness ==
    /\ Len(calls) = 2
    /\ CleanMiss(calls[1])
    /\ calls[1].ret = PyNone
    /\ CleanMiss(calls[2])
    /\ IsProblem(calls[2].ret)

\* C4: when the cache lookup returned a Problem, product_lookup does not end
\* there: the next call is database_query for the same product id, and
\* product_lookup returns what the database step yielded.
C4_CacheProblemFallsThrough ==
    (IsProblem(cache_result) /\ (Ended \/ Len(calls) >= 2)) =>
        /\ Len(calls) >= 2
        /\ calls[2].op = "database_query"
        /\ calls[2].key = calls[1].key
        /\ calls[2].key = product_id
        /\ Ended => (pc = "returned" /\ result = calls[2].ret /\ result # cache_result)

\* C4 witness: the cache was unavailable and the request returned the
\* database value.
C4_Witness ==
    /\ pc = "returned"
    /\ IsProblem(cache_result)
    /\ result = Lit("Desktop Computer")

\* C5: when database_query returned a Problem, product_lookup returns that
\* same Problem, with the fields it was constructed with, never a product
\* value, and cache_update is not called.
C5_DbProblemPropagates ==
    (IsProblem(db_result) /\ pc \notin {"check_db"}) =>
        /\ pc = "returned"
        /\ result = db_result
        /\ heap[result.n] = calls[Len(calls)].made
        /\ calls[Len(calls)].op = "database_query"
        /\ CallsOf({"cache_update"}) = {}

\* C5 witness: the simulated database failure was returned by product_lookup.
C5_Witness ==
    /\ pc = "returned"
    /\ IsProblem(db_result)
    /\ IsProblem(result)
    /\ heap[result.n].status = PyInt(500)

\* the value the construction gave field f (None when it was left out)
Given(f) == IF f \in DOMAIN ctor.kwargs THEN ctor.kwargs[f] ELSE PyNone

\* to_dict has type and title as constructed, and the key of an optional
\* field exactly when the field is not None, with the field's value
WireHasNamedFields ==
    /\ {"type", "title"} \subseteq DOMAIN wire
    /\ wire["type"] = ctor.type
    /\ wire["title"] = ctor.title
    /\ \A f \in NamedKeywords :
          /\ f \in DOMAIN wire <=> Given(f) # PyNone
          /\ f \in DOMAIN wire => wire[f] = Given(f)

\* C6, as stated: for every Problem (any optional field present or absent,
\* any extras, also extras whose value is None) to_dict has type and title
\* as constructed, has an optional field's key only when the field is not
\* None, and has no key whose value is null.
C6_NoNullInWire ==
    pc = "serialized" =>
        /\ WireHasNamedFields
        /\ \A k \in DOMAIN wire : wire[k] # PyNone

\* C6, amended: to_dict has type and title as constructed and an optional
\* field's key (status, detail, instance) exactly when that field is not
\* None; every extras entry is copied as it was given, so the only keys with
\* a null value are extras that were passed as None.
C6_NoNullNamedField ==
    pc = "serialized" =>
        /\ WireHasNamedFields
        /\ DOMAIN wire = ({"type", "title"} \cup DOMAIN ctor.kwargs)
                         \ {f \in NamedKeywords : Given(f) = PyNone}
        /\ \A k \in DOMAIN ctor.kwargs \ NamedKeywords : wire[k] = ctor.kwargs[k]
        /\ \A k \in DOMAIN wire :
              wire[k] = PyNone => (k \notin NamedKeywords /\ k \in DOMAIN ctor.kwargs)

\* C6 witness: a Problem built with status None, no detail, an empty
\* instance and retry_after None was serialized: status and detail are left
\* out, instance is kept, and retry_after is there with a null value.
C6_Witness ==
    /\ pc = "serialized"
    /\ "status" \in DOMAIN ctor.kwargs
    /\ ctor.kwargs["status"] = PyNone
    /\ "status" \notin DOMAIN wire
    /\ "detail" \notin DOMAIN wire
    /\ "instance" \in DOMAIN wire
    /\ wire["instance"] = Lit("")
    /\ "retry_after" \in DOMAIN wire
    /\ wire["retry_after"] = PyNone

\* C7: a Problem's fields never change after its construction: every step
\* of the run leaves every Problem object as it was, and a Problem a
\* dependency call returned has the fields it had when the call returned.
C7_ProblemImmutable ==
    /\ [][\A r \in DOMAIN heap : r \in DOMAIN heap' /\ heap'[r] = heap[r]]_vars
    /\ [](\A i \in DOMAIN calls :
             IsProblem(calls[i].ret) => heap[calls[i].ret.n] = calls[i].made)
    /\ []((pc = "returned" /\ IsProblem(result)) =>
             \E i \in DOMAIN calls :
                 calls[i].ret = result /\ heap[result.n] = calls[i].made)

\* C7 witness: a second request returned a Problem while the Problems of
\* the first request are still there.
C7_Witness ==
    /\ pc = "returned"
    /\ nreq = 2
    /\ IsProblem(result)
    /\ IsProblem(cache_result)
    /\ Len(heap) >= 3

\* C8: within one product_lookup call the cache lookup, database_query and
\* cache_update are each called at most once; a failed call is not repeated.
C8_AtMostOnce ==
    /\ Cardinality(CallsOf({"cache_lookup", "unavailable_cache"})) <= 1
    /\ Cardinality(CallsOf({"database_query"})) <= 1
    /\ Cardinality(CallsOf({"cache_update"})) <= 1
    /\ Len(spans) <= 1 + Len(calls)

\* C8 witness: the request ended after a failed cache lookup and a failed
\* database query, each called once.
C8_Witness ==
    /\ pc = "returned"
    /\ Len(calls) = 2
    /\ IsProblem(calls[1].ret)
    /\ IsProblem(calls[2].ret)
    /\ calls[2].made.status = PyInt(500)

\* the span of call c records the failure: status ERROR, error = True
FailureRecorded(c) ==
    /\ spans[c.span].status = "ERROR"
    /\ "error" \in DOMAIN spans[c.span].attrs
    /\ spans[c.span].attrs["error"] = PyTrue
    /\ spans[c.span].ended

\* C9, as stated: whenever a dependency call returns a Problem, its own span
\* has status ERROR and the error attribute set, also for the
\* product-not-found Problem of database_query.
C9_EveryProblemRecorded ==
    \A i \in DOMAIN calls : IsProblem(calls[i].ret) => FailureRecorded(calls[i])

\* C9, amended: whenever a dependency call returns a Problem of status 500
\* or more (database error, cache update failed, cache unavailable) its own
\* span has status ERROR and the error attribute set; the product-not-found
\* Problem (404) of database_query is returned with the span's status unset,
\* no error attribute, and db.found = False.
C9_ServerErrorsRecorded ==
    \A i \in DOMAIN calls :
        IsProblem(calls[i].ret) =>
            IF calls[i].made.status.n >= 500
            THEN FailureRecorded(calls[i])
            ELSE /\ calls[i].op = "database_query"
                 /\ calls[i].made.status = PyInt(404)
                 /\ spans[calls[i].span].status = "UNSET"
                 /\ "error" \notin DOMAIN spans[calls[i].span].attrs
                 /\ spans[calls[i].span].attrs["db.found"] = PyFalse

\* C9 witness: in one request the cache lookup returned a recorded Problem
\* and the database query the unrecorded product-not-found Problem.
C9_Witness ==
    /\ Len(calls) = 2
    /\ IsProblem(calls[1].ret)
    /\ FailureRecorded(calls[1])
    /\ IsProblem(calls[2].ret)
    /\ ~FailureRecorded(calls[2])

\* C10: product_lookup never uses a Problem as a product value: no Problem
\* is returned through the cache-hit path, none is passed as the value of
\* cache_update, and lookup.source is set only when the returned result is
\* not a Problem.
C10_ProblemNeverUsedAsValue ==
    /\ \A i \in CallsOf({"cache_update"}) : ~IsProblem(calls[i].arg)
    /\ \A i \in CallsOf({"cache_update"}) :
          ~IsProblem(spans[calls[i].span].attrs["cache.value"])
    /\ (pc = "returned" /\ Len(calls) = 1) => ~IsProblem(result)
    /\ (pc = "returned" /\ "lookup.source" \in DOMAIN ServerAttrs) => ~IsProblem(result)
    /\ (pc = "returned" /\ IsProblem(result)) => "lookup.source" \notin DOMAIN ServerAttrs

\* C10 witness: the cache lookup returned a Problem and the request still
\* ended with lookup.source = database and a product value.
C10_Witness ==
    /\ pc = "returned"
    /\ IsProblem(cache_result)
    /\ "lookup.source" \in DOMAIN ServerAttrs
    /\ ServerAttrs["lookup.source"] = Lit("database")
    /\ ~IsProblem(result)

\* C11: no exception leaves product_lookup for any expected failure mode
\* (cache miss, cache unavailable, record not found, simulated database 500,
\* simulated cache-update failure), for any product id: product_lookup
\* always returns a product value or a Problem.
C11_NoExceptionFromLookup ==
    /\ raised = "none"
    /\ pc \notin {"unwind", "crashed"}
    /\ \A i \in DOMAIN calls : ~IsRaise(calls[i].ret)
    /\ pc = "returned" =>
          \/ IsProblem(result) /\ result.n \in DOMAIN heap
          \/ result.tag = "str" /\ Truthy(result)

\* C11 witness: with the cache unavailable and the record not in the
\* database, product_lookup returned the product-not-found Problem.
C11_Witness ==
    /\ pc = "returned"
    /\ raised = "none"
    /\ IsProblem(cache_result)
    /\ IsProblem(result)
    /\ heap[result.n].status = PyInt(404)

\* C14: when the cache lookup returned a Problem, cache_update is never
\* called in that request, also when database_query succeeds, and the
\* database value is returned.
C14_DegradedPathSkipsCache ==
    IsProblem(cache_result) =>
        /\ CallsOf({"cache_update"}) = {}
        /\ pc \notin {"cache_update", "check_update"}
        /\ \A i \in DOMAIN spans : spans[i].name # Lit("Redis SET")
        /\ (Ended /\ ~IsProblem(db_result)) =>
              (pc = "returned" /\ Len(calls) = 2 /\ result = db_result
               /\ result = GetItem(db_data, product_id))

\* C14 witness: the cache was unavailable, the database had the product,
\* and the request returned it after two calls.
C14_Witness ==
    /\ pc = "returned"
    /\ IsProblem(cache_result)
    /\ Len(calls) = 2
    /\ result = Lit("Tablet")

\* the cache lookup returned a value: a cache hit
CacheHit == ~IsProblem(cache_result) /\ Truthy(cache_result)

\* C15: on a cache hit the cached value is returned at once: neither
\* database_query nor cache_update is called.  A runner that looks up
\* product-1001 with the original cache_lookup (scenario 2) always takes
\* this path and returns "Laptop".
C15_CacheHitReturnsAtOnce ==
    /\ CacheHit =>
          /\ Len(calls) = 1
          /\ pc \in {"check_cache", "returned"}
          /\ pc = "returned" => result = cache_result
    /\ (Ended /\ product_id = Lit("product-1001") /\ calls[1].op = "cache_lookup") =>
          /\ pc = "returned"
          /\ CacheHit
          /\ result = Lit("Laptop")
          /\ Len(spans) = 2

\* C15 witness: the second runner looked up product-1001 and returned the
\* cached value.
C15_Witness ==
    /\ pc = "returned"
    /\ nreq = 2
    /\ product_id = Lit("product-1001")
    /\ CacheHit
    /\ result = Lit("Laptop")

\* the cache lookup was a clean miss and the database query returned a value
MissThenDbValue ==
    /\ Len(calls) >= 2
    /\ calls[1].op = "cache_lookup"
    /\ calls[1].ret = PyNone
    /\ ~IsProblem(calls[2].ret)

\* C16: on a clean cache miss followed by a successful database_query the
\* calls are, in order, cache lookup, database_query, cache_update, and
\* cache_update is called exactly once, with the product id and the value
\* the database returned.  A runner that looks up product-3003 with the
\* original cache_lookup (scenario 1) takes this path whenever the database
\* simulates no failure.
C16_MissThenUpdateInOrder ==
    /\ (pc = "returned" /\ MissThenDbValue) =>
          /\ Len(calls) = 3
          /\ calls[2].op = "database_query"
          /\ calls[3].op = "cache_update"
          /\ calls[3].key = product_id
          /\ calls[3].arg = calls[2].ret
          /\ spans[calls[3].span].attrs["cache.value"] = calls[2].ret
          /\ spans[calls[3].span].attrs["cache.key"] = product_id
          /\ <<spans[2].name, spans[3].name, spans[4].name>> =
                <<Lit("Redis GET"), Lit("PostgreSQL Query"), Lit("Redis SET")>>
    /\ (pc = "returned" /\ product_id = Lit("product-3003")
        /\ calls[1].op = "cache_lookup" /\ ~SimulatedFailure(calls[2])) =>
          /\ MissThenDbValue
          /\ result = Lit("Tablet")

\* C16 witness: the first runner looked up product-3003, missed the cache,
\* got the value from the database and updated the cache with it.
C16_Witness ==
    /\ pc = "returned"
    /\ nreq = 1
    /\ product_id = Lit("product-3003")
    /\ Len(calls) = 3
    /\ calls[3].arg = Lit("Tablet")
    /\ calls[3].ret = PyTrue

\* C17: a failed cache_update does not fail the request: product_lookup
\* still returns the database value, the server span has
\* cache.update.failed and not cache.update.success; whenever cache_update
\* was called, exactly one of the two attributes is set at the return.
C17_UpdateFailureTolerated ==
    pc = "returned" =>
        /\ IsProblem(cache_update_result) =>
              /\ result = db_result
              /\ ~IsProblem(result)
              /\ "cache.update.failed" \in DOMAIN ServerAttrs
              /\ "cache.update.success" \notin DOMAIN ServerAttrs
        /\ CallsOf({"cache_update"}) # {} =>
              ("cache.update.failed" \in DOMAIN ServerAttrs
                  <=> "cache.update.success" \notin DOMAIN ServerAttrs)
        /\ CallsOf({"cache_update"}) = {} =>
              {"cache.update.failed", "cache.update.success"} \cap DOMAIN ServerAttrs = {}

\* C17 witness: cache_update failed and the request returned the database
\* value with cache.update.failed on the server span.
C17_Witness ==
    /\ pc = "returned"
    /\ IsProblem(cache_update_result)
    /\ result = Lit("Desktop Computer")
    /\ ServerAttrs["cache.update.failed"] = PyTrue

\* C18: at the end of every product_lookup call the server span's
\* http.status_code is 200 exactly when the result is not a Problem and
\* otherwise the returned Problem's status; the server span's status is
\* ERROR exactly when the returned Problem's status is 500 or more.
C18_ServerSpanStatus ==
    pc = "returned" =>
        /\ ServerAttrs["http.status_code"] = PyInt(200) <=> ~IsProblem(result)
        /\ IsProblem(result) => ServerAttrs["http.status_code"] = heap[result.n].status
        /\ spans[1].status = "ERROR"
              <=> (IsProblem(result) /\ heap[result.n].status.n >= 500)
        /\ spans[1].ended

\* C18 witness: a product-not-found result left http.status_code 404 and
\* the server span's status unset.
C18_Witness ==
    /\ pc = "returned"
    /\ IsProblem(result)
    /\ ServerAttrs["http.status_code"] = PyInt(404)
    /\ spans[1].status = "UNSET"

\* the chat-completion requests of 08-openai.py are numbered by their
\* iteration, and main returns only after all of them
C12_RequestsInLoopOrder ==
    /\ inflight \in {0, 1}
    /\ script = "08-openai" =>
          /\ Len(requests) <= Iterations
          /\ \A k \in DOMAIN requests :
                /\ requests[k].op = "chat.completions.create"
                /\ requests[k].n = k - 1
          /\ pc = "exit" => (Len(requests) = Iterations /\ raised = "none")

\* a request is sent only when none is in flight, and in 08-openai.py only
\* when every earlier request has been answered
C12_SendAfterResponse ==
    Len(requests') > Len(requests) =>
        /\ inflight = 0
        /\ Len(requests') = Len(requests) + 1
        /\ script = "08-openai" => (Len(requests) = loop_i /\ inflight' = 1)

\* C12: at most one third-party request is in flight at any time; the 20
\* chat-completion requests of 08-openai.py are issued strictly one after
\* the other, request i+1 only after the response to request i, and exactly
\* 20 are issued when none fails.
C12_SequentialRequests == []C12_RequestsInLoopOrder /\ [][C12_SendAfterResponse]_vars

\* C12 witness: 08-openai.py ended after 20 answered requests.
C12_Witness ==
    /\ script = "08-openai"
    /\ pc = "exit"
    /\ Len(requests) = Iterations
    /\ loop_i = Iterations
    /\ inflight = 0

\* the script's required configuration is missing: os.environ.get gave
\* None or the empty string
ConfigMissing ==
    \/ /\ script = "create_hotel_search_index"
       /\ \/ ~Truthy(env["SEARCH_SERVICE_ENDPOINT"])
          \/ ~Truthy(env["AZURE_OPENAI_ENDPOINT"])
    \/ /\ script = "09-maas"
       /\ ~Truthy(env["AZURE_AIGW_API_KEY"])

\* C13: with required configuration missing the script signals it by an
\* exception before any cloud call: create_hotel_search_index's main sends
\* no request (no index, no embedding, no upload) and ends reporting the
\* ValueError; 09-maas builds no client, sends no request and ends with
\* the exception.
C13_MissingConfigNoCloudCall ==
    ConfigMissing =>
        /\ requests = <<>>
        /\ script = "09-maas" =>
              /\ clients = {}
              /\ pc \in {"start", "crashed"}
              /\ pc = "crashed" => raised = "Exception"
        /\ script = "create_hotel_search_index" =>
              /\ pc \in {"start", "exit"}
              /\ pc = "exit" =>
                    \/ printed = <<"Error: SEARCH_SERVICE_ENDPOINT environment variable not set">>
                    \/ printed = <<"Error: AZURE_OPENAI_ENDPOINT environment variable not set">>

\* C13 witness: with only AZURE_OPENAI_ENDPOINT unset main ended with the
\* error reported and nothing sent.
C13_Witness ==
    /\ script = "create_hotel_search_index"
    /\ Truthy(env["SEARCH_SERVICE_ENDPOINT"])
    /\ env["AZURE_OPENAI_ENDPOINT"] = PyNone
    /\ pc = "exit"
    /\ requests = <<>>
    /\ printed = <<"Error: AZURE_OPENAI_ENDPOINT environment variable not set">>

\* the concatenation of the sequences of a sequence
RECURSIVE Flatten(_)
Flatten(ss) == IF ss = <<>> THEN <<>> ELSE Head(ss) \o Flatten(Tail(ss))

\* the upload_documents requests sent so far
UploadRequests == SelectSeq(requests, LAMBDA r : r.op = "upload_documents")

\* the ids of the documents passed to upload_documents, in order
UploadedIds == Flatten([k \in DOMAIN UploadRequests |-> UploadRequests[k].docs])

\* the ids of the generated hotels that are not among the ids found
NewIds ==
    LET new == SelectSeq(hotels, LAMBDA h : h.hotelId \notin existing_hotel_ids)
    IN  [k \in DOMAIN new |-> new[k].hotelId]

\* C21: no hotel whose hotelId was found in the index is uploaded: once
\* the upload loop has ended the documents passed to upload_documents are
\* exactly the generated hotels whose id is not in existing_hotel_ids, and
\* when there is none upload_documents was never called and both counters
\* are 0.
C21_OnlyNewHotelsUploaded ==
    /\ \A k \in DOMAIN UploadedIds : UploadedIds[k] \notin existing_hotel_ids
    /\ pc = "hotel_report" =>
          /\ UploadedIds = NewIds
          /\ NewIds = <<>> =>
                /\ UploadRequests = <<>>
                /\ uploaded_count = 0
                /\ failed_count = 0

\* C21 witness: one generated hotel was already in the index and only the
\* other one was uploaded.
C21_Witness ==
    /\ pc = "hotel_report"
    /\ \E k \in DOMAIN hotels : hotels[k].hotelId \in existing_hotel_ids
    /\ Len(UploadRequests) = 1
    /\ Len(UploadedIds) = Len(hotels) - 1
    /\ uploaded_count = Len(UploadedIds)

\* the listing of the existing hotels failed and main reported it
ListingFailed ==
    \E k \in DOMAIN printed : printed[k] = "Warning: Error checking existing hotels"

\* after a failed listing the upload loop still runs over the hotels not
\* among the ids collected before the error
C22_UploadAfterFailedListing ==
    (ListingFailed /\ pc = "hotel_report") =>
        /\ UploadedIds = NewIds
        /\ NewIds # <<>> => UploadRequests # <<>>

\* the listing step always goes on to the filter step
C22_ListingGoesOn == pc = "hotel_list" => pc' = "hotel_filter"

\* C22: an error while listing the existing hotels does not abort the run:
\* main goes on to the upload step and passes to upload_documents every
\* generated hotel whose id is not among the ids collected before the
\* error.
C22_ListingErrorTolerated ==
    []C22_UploadAfterFailedListing /\ [][C22_ListingGoesOn]_vars

\* C22 witness: the listing failed after one id of a generated hotel had
\* been collected, and the other hotel was still uploaded.
C22_Witness ==
    /\ ListingFailed
    /\ pc = "hotel_report"
    /\ \E k \in DOMAIN hotels : hotels[k].hotelId \in existing_hotel_ids
    /\ UploadedIds # <<>>
    /\ uploaded_count >= 1

\* C23: generate_random_hotel selects between 5 and 10 amenities, all
\* distinct and all drawn from HOTEL_AMENITIES.
C23_FiveToTenAmenities ==
    pc = "generated" =>
        LET amenities == hotels[1].amenities
        IN  /\ Len(amenities) >= 5
            /\ Len(amenities) <= 10
            /\ \A j, k \in DOMAIN amenities : j # k => amenities[j] # amenities[k]
            /\ Elements(amenities) \subseteq Elements(HOTEL_AMENITIES)

\* the chat history starts with the system prompt, then alternates user
\* and assistant messages; no user message is an exit command; between two
\* queries every user message has its reply
C24_HistoryShape ==
    script = "07-sk-rag-sample" =>
        /\ chat_history # <<>> => chat_history[1] = Message("system", SYSTEM_PROMPT)
        /\ \A k \in DOMAIN chat_history : k > 1 =>
              /\ chat_history[k].role = IF k % 2 = 0 THEN "user" ELSE "assistant"
              /\ chat_history[k].role = "user" => ~IsExitCommand(chat_history[k].content)
        /\ pc = "rag_input" => Len(chat_history) = 1 + 2 * loop_i
        /\ (pc = "rag_input" /\ loop_i > 0) =>
              /\ chat_history[Len(chat_history) - 1] = Message("user", user_input)
              /\ chat_history[Len(chat_history)] = Message("assistant", response)
        /\ Len(requests) <= loop_i + 1

\* an exit command ends the loop and touches neither the history nor the
\* chat service; any other line goes to process_query; the chat service is
\* called only after the user message has been appended, and the reply is
\* appended only after the call
C24_LoopSteps ==
    /\ pc = "rag_input" =>
          IF IsExitCommand(user_input')
          THEN pc' = "exit" /\ chat_history' = chat_history /\ requests' = requests
          ELSE pc' = "rag_add_user_message"
    /\ requests' # requests =>
          /\ chat_history[Len(chat_history)] = Message("user", user_input)
          /\ chat_history' = chat_history
    /\ (chat_history' # chat_history /\ pc = "rag_add_assistant_message") =>
          /\ Len(requests) = loop_i + 1
          /\ chat_history' = Append(chat_history, Message("assistant", response))

\* C24: in the RAG demo's main loop an input that equals EXIT after
\* trimming whitespace and ignoring case ends the loop without calling
\* process_query and without adding to the chat history; for every other
\* input process_query appends the user message before the chat service
\* is called and the assistant reply after it returns, so the history
\* starts with the system prompt and each completed query adds the user
\* message followed by the assistant message.
C24_ExitAndHistoryOrder == []C24_HistoryShape /\ [][C24_LoopSteps]_vars

\* C24 witness: after one completed query the user typed " exit" followed
\* by a tab, and the loop ended with the history of that one query.
C24_Witness ==
    /\ script = "07-sk-rag-sample"
    /\ pc = "exit"
    /\ user_input = <<" ", "e", "x", "i", "t", "\t">>
    /\ loop_i = 1
    /\ Len(chat_history) = 3
    /\ chat_history[2].role = "user"
    /\ chat_history[3] = Message("assistant", response)
    /\ Len(requests) = 1

\* the fixed text for an empty list
NoHotelsText == <<"No hotels found matching the search criteria.">>

\* the line of the k-th block of the formatted text at position j
BlockLine(k, j) == formatted_results[BlockLines * (k - 1) + j]

\* the position of a field's line in a block
FieldLine(f) ==
    CASE f = "hotelName" -> 2
      [] f = "location" -> 3
      [] f = "description" -> 4
      [] f = "rating" -> 5
      [] f = "pricePerNight" -> 6
      [] f = "amenities" -> 7
      [] f = "tags" -> 8
      [] f = "roomCount" -> 9
      [] f = "lastRenovationDate" -> 10
      [] OTHER -> 11

\* a field's line with the field rendered as N/A, or No for parkingIncluded
LineWithNA(f) ==
    CASE f = "hotelName" -> "Name: N/A"
      [] f = "location" -> "Location: N/A"
      [] f = "description" -> "Description: N/A"
      [] f = "rating" -> "Rating: N/A/5.0"
      [] f = "pricePerNight" -> "Price per night: $N/A"
      [] f = "amenities" -> "Amenities: N/A"
      [] f = "tags" -> "Tags: N/A"
      [] f = "roomCount" -> "Room Count: N/A"
      [] f = "lastRenovationDate" -> "Last Renovation: N/A"
      [] OTHER -> "Parking Included: No"

\* the line of a missing field: a list field is rendered as the empty text
LineWhenMissing(f) ==
    CASE f = "amenities" -> "Amenities: "
      [] f = "tags" -> "Tags: "
      [] OTHER -> LineWithNA(f)

\* the fixed text exactly for the empty list, and otherwise one block per
\* hotel, numbered from 1 in the order of the list
C25_BlocksInOrder ==
    /\ formatted_results = NoHotelsText <=> hotels = <<>>
    /\ hotels # <<>> =>
          /\ Len(formatted_results) = BlockLines * Len(hotels)
          /\ \A k \in DOMAIN hotels :
                /\ BlockLine(k, 1) = "Hotel " \o ToString(k) \o ":"
                /\ "hotelName" \in DOMAIN hotels[k] =>
                      BlockLine(k, 2) = "Name: " \o hotels[k]["hotelName"].s
                /\ "parkingIncluded" \in DOMAIN hotels[k] =>
                      BlockLine(k, 11) = "Parking Included: "
                          \o (IF hotels[k]["parkingIncluded"] = PyTrue THEN "Yes" ELSE "No")

\* C25 as claimed: the fixed text exactly when the list is empty, n blocks
\* numbered Hotel 1 to Hotel n in the order of the list, and every missing
\* field rendered as N/A (No for parkingIncluded).
C25_MissingFieldIsNA ==
    pc = "formatted" =>
        /\ C25_BlocksInOrder
        /\ \A k \in DOMAIN hotels : \A f \in HotelFields \ DOMAIN hotels[k] :
              BlockLine(k, FieldLine(f)) = LineWithNA(f)

\* C25, amended: format_hotels_for_completion returns the fixed text
\* exactly when the hotel list is empty; for n hotels it produces n blocks
\* numbered Hotel 1 to Hotel n in the order of the list; a missing scalar
\* field is rendered as N/A (No for parkingIncluded) and a missing
\* amenities or tags list as the empty text, and nothing is raised.
C25_MissingFieldHasDefault ==
    pc = "formatted" =>
        /\ C25_BlocksInOrder
        /\ \A k \in DOMAIN hotels : \A f \in HotelFields \ DOMAIN hotels[k] :
              BlockLine(k, FieldLine(f)) = LineWhenMissing(f)

\* C25 witness: two results were formatted, the first without any field
\* and the second without its lists.
C25_Witness ==
    /\ pc = "formatted"
    /\ Len(hotels) = 2
    /\ DOMAIN hotels[1] = {}
    /\ DOMAIN hotels[2] = HotelFields \ {"amenities", "tags"}
    /\ BlockLine(1, 2) = "Name: N/A"
    /\ BlockLine(2, 1) = "Hotel 2:"
    /\ BlockLine(2, 7) = "Amenities: "

\* C26: every Problem that reaches product_lookup from database_query has
\* a numeric status, 404 or 500, so the comparison of the status with 500
\* is always defined; and no dependency operation constructs a Problem
\* whose status is absent.
C26_StatusAlwaysNumeric ==
    /\ \A k \in DOMAIN heap : heap[k].status.tag = "int"
    /\ \A k \in DOMAIN calls :
          (calls[k].op = "database_query" /\ IsProblem(calls[k].ret)) =>
              heap[calls[k].ret.n].status \in {PyInt(404), PyInt(500)}
    /\ (pc = "check_db" /\ IsProblem(db_result)) =>
          heap[db_result.n].status \in {PyInt(404), PyInt(500)}
    /\ raised # "TypeError"

\* C26 witness: database_query returned its status-500 Problem and
\* product_lookup is about to compare the status with 500.
C26_Witness ==
    /\ pc = "check_db"
    /\ IsProblem(db_result)
    /\ heap[db_result.n].status = PyInt(500)
    /\ \E k \in DOMAIN heap : heap[k].status = PyInt(503)

\* the product id, scenario label and cache function of the n-th runner
RunnerProduct(n) ==
    CASE n = 1 -> Lit("product-3003")
      [] n = 2 -> Lit("product-1001")
      [] OTHER -> Lit("product-4004")

RunnerBinding(n) == IF n = 3 THEN "unavailable_cache" ELSE "cache_lookup"

\* every span of the current request has ended
AllSpansEnded == \A k \in DOMAIN spans : spans[k].ended

\* the states of main in which no scenario is running
BetweenScenarios == pc \in {"main", "idle", "flush_wait", "exit", "crashed"}

\* the shape of one scenario's trace: a parentless server span first, and
\* under it only ended client spans
C19_TraceShape ==
    /\ tracer = "unset" => (spans = <<>> /\ nreq = 0 /\ pc = "main")
    /\ nreq \in 0..Scenarios
    /\ ~BetweenScenarios =>
          /\ product_id = RunnerProduct(nreq)
          /\ binding = RunnerBinding(nreq)
    /\ spans # <<>> =>
          /\ spans[1].kind = "SERVER"
          /\ spans[1].parent = 0
          /\ ServerAttrs["scenario"] = ScenarioLabel(nreq)
          /\ ServerAttrs["product.id"] = RunnerProduct(nreq)
    /\ \A k \in DOMAIN spans : k > 1 =>
          /\ spans[k].kind = "CLIENT"
          /\ spans[k].parent = 1
          /\ spans[k].ended
    /\ pc \in InsideLookup => (current = 1 /\ ~spans[1].ended)
    /\ BetweenScenarios => (AllSpansEnded /\ current = 0)
    /\ pc \in {"flush_wait", "exit"} =>
          (nreq = Scenarios /\ raised = "none" /\ tokens = 0)

\* the order of the steps: a runner starts only from main's idle position
\* after setup_tracing, with no span open, and is the next in order; a
\* dependency span is added only while the server span is open and current
C19_StepOrder ==
    /\ nreq' # nreq =>
          /\ pc = "idle" /\ tracer = "set" /\ raised = "none"
          /\ AllSpansEnded /\ current = 0
          /\ nreq' = nreq + 1
          /\ product_id' = RunnerProduct(nreq')
          /\ spans' = <<>>
    /\ (Len(spans') > Len(spans) /\ spans # <<>>) =>
          /\ current = 1 /\ current' = 1
          /\ ~spans[1].ended /\ ~spans'[1].ended
    /\ (Len(spans') > Len(spans) /\ spans = <<>>) =>
          (tracer = "set" /\ Len(spans') = 1 /\ current' = 1)

\* C19: main is linear and every scenario is its own trace: setup_tracing
\* comes before any span; the runners run in the order 1, 2, 3; each
\* scenario's server span has no parent; every dependency span is started
\* and ended while the server span is the current open span; no span of a
\* scenario is open when the next starts; and the final wait begins only
\* after scenario 3 has finished.
C19_LinearScript == []C19_TraceShape /\ [][C19_StepOrder]_vars

\* C19 witness: main reached its final wait after the third scenario, run
\* with the cache unavailable, left a server span and two ended client
\* spans.
C19_Witness ==
    /\ pc = "flush_wait"
    /\ nreq = Scenarios
    /\ binding = "cache_lookup"
    /\ Len(spans) >= 3
    /\ spans[1].ended
    /\ ServerAttrs["scenario"] = ScenarioLabel(3)

\* the number of attached contexts is 1 while a runner is between attach
\* and detach and 0 outside
C20_TokenBalance == tokens = IF BetweenScenarios THEN 0 ELSE 1

\* attach happens only at a runner's start, detach only at its end
C20_AttachDetachSteps ==
    tokens' # tokens =>
        \/ pc = "idle" /\ pc' = "product_lookup" /\ tokens' = tokens + 1
        \/ /\ pc \in {"returned", "unwind"}
           /\ pc' \in {"idle", "crashed"}
           /\ tokens' = tokens - 1

\* C20: in every scenario runner the attached context is detached exactly
\* once on every exit path, also when product_lookup raises: after a
\* runner the number of attached contexts is what it was before.
C20_DetachOnEveryPath == []C20_TokenBalance /\ [][C20_AttachDetachSteps]_vars

\* C20 witness: product_lookup raised in the third runner, the script
\* ended with the exception, and the context had been detached.
C20_Witness ==
    /\ pc = "crashed"
    /\ raised = "RuntimeError"
    /\ nreq = Scenarios
    /\ binding = "unavailable_cache"
    /\ tokens = 0

====
